---- MODULE Spec2Model ----
(***************************************************************************)
(* Model of the record reconciliation engine of utils/pdf_parser.py:       *)
(* the normalisation helpers (_norm, _strip_new_tag, clean_company_name),  *)
(* the cross-document merge merge_all_companies, run record by record,     *)
(* the document loop of agents/extractor_agent.py, and the extractors      *)
(* behind parse_conference_pdf, run page by page.                          *)
(*                                                                         *)
(* Python strings are sequences of one-character strings, so that the      *)
(* normalisers are computed character by character as the code does.       *)
(***************************************************************************)
EXTENDS Integers, Sequences, FiniteSets, TLC

\* ------------------------------------------------------------------------
\* Characters and strings
\* ------------------------------------------------------------------------

\* The characters used by the model in code point order; "NBSP" stands
\* for the single code point U+00A0.
Chars ==
  << "\t", " ", "&", "'", "(", ")", ",", "-", ".",
     "0", "1", "2", "3", "4", "5", "6", "7", "8", "9",
     "A", "B", "C", "D", "E", "F", "G", "H", "I", "J", "K", "L", "M",
     "N", "O", "P", "Q", "R", "S", "T", "U", "V", "W", "X", "Y", "Z",
     "_",
     "a", "b", "c", "d", "e", "f", "g", "h", "i", "j", "k", "l", "m",
     "n", "o", "p", "q", "r", "s", "t", "u", "v", "w", "x", "y", "z",
     "NBSP" >>

Ord(ch) == CHOOSE i \in 1..Len(Chars) : Chars[i] = ch

UpperLetters ==
  << "A", "B", "C", "D", "E", "F", "G", "H", "I", "J", "K", "L", "M",
     "N", "O", "P", "Q", "R", "S", "T", "U", "V", "W", "X", "Y", "Z" >>

LowerLetters ==
  << "a", "b", "c", "d", "e", "f", "g", "h", "i", "j", "k", "l", "m",
     "n", "o", "p", "q", "r", "s", "t", "u", "v", "w", "x", "y", "z" >>

\* str.lower() on one character
LowerChar(ch) ==
  IF \E i \in 1..26 : UpperLetters[i] = ch
    THEN LowerLetters[CHOOSE i \in 1..26 : UpperLetters[i] = ch]
    ELSE ch

\* str.lower()
Lower(s) == [i \in 1..Len(s) |-> LowerChar(s[i])]

\* the characters str.split() and the regex class \s treat as whitespace
IsSpace(ch) == ch \in {" ", "\t", "NBSP"}

\* Python None, a value distinct from every string
None == << "<None>" >>

\* Python None for an optional int (team_size); int(\d+) is never negative
NoneInt == -1

\* truthiness of an optional string: None and "" are falsy
TruthyStr(s) == s # None /\ s # << >>

\* truthiness of an optional int: None and 0 are falsy
TruthyInt(n) == n # NoneInt /\ n # 0

\* x or 0
OrZero(n) == IF TruthyInt(n) THEN n ELSE 0

\* max(a, b) on ints
Max(a, b) == IF a >= b THEN a ELSE b

\* lexicographic < on strings, as Python compares str
RECURSIVE StrLess(_, _)
StrLess(a, b) ==
  IF b = << >> THEN FALSE
  ELSE IF a = << >> THEN TRUE
  ELSE IF a[1] # b[1] THEN Ord(a[1]) < Ord(b[1])
  ELSE StrLess(Tail(a), Tail(b))

\* sorted(S) for a set of strings
RECURSIVE Sorted(_)
Sorted(S) ==
  IF S = {} THEN << >>
  ELSE LET lo == CHOOSE x \in S : \A y \in S \ {x} : StrLess(x, y)
       IN  << lo >> \o Sorted(S \ {lo})

\* sep.join(parts)
RECURSIVE Join(_, _)
Join(sep, parts) ==
  IF parts = << >> THEN << >>
  ELSE IF Len(parts) = 1 THEN parts[1]
  ELSE parts[1] \o sep \o Join(sep, Tail(parts))

\* the positions 1..Len(s)
Indices(s) == [i \in 1..Len(s) |-> i]

\* str.split(): the maximal runs of non-whitespace characters, each from
\* its first position to the last position before the next whitespace
Split(s) ==
  LET starts == SelectSeq(Indices(s),
                  LAMBDA i : ~IsSpace(s[i]) /\ (i = 1 \/ IsSpace(s[i - 1])))
      EndOf(i) == CHOOSE j \in i..Len(s) :
                    /\ \A k \in i..j : ~IsSpace(s[k])
                    /\ (j = Len(s) \/ IsSpace(s[j + 1]))
  IN  [n \in 1..Len(starts) |-> SubSeq(s, starts[n], EndOf(starts[n]))]

\* str.strip(chars): drop leading and trailing characters of the set
LStrip(s, cs) ==
  IF \A i \in 1..Len(s) : s[i] \in cs THEN << >>
  ELSE SubSeq(s, CHOOSE i \in 1..Len(s) :
                   s[i] \notin cs /\ \A j \in 1..(i - 1) : s[j] \in cs,
              Len(s))

RStrip(s, cs) ==
  IF \A i \in 1..Len(s) : s[i] \in cs THEN << >>
  ELSE SubSeq(s, 1, CHOOSE i \in 1..Len(s) :
                      s[i] \notin cs /\ \A j \in (i + 1)..Len(s) : s[j] \in cs)

Strip(s, cs) == RStrip(LStrip(s, cs), cs)

SpaceChars == {" ", "\t", "NBSP"}

\* _norm(text): whitespace runs collapsed to one space, ends trimmed
Norm(text) ==
  Join(<< " " >>, Split(IF text = None THEN << >> ELSE text))

\* _strip_new_tag(text): re.sub(r"\s+\bNEW\b\s*$", "", _norm(text), I).strip()
\* On the normalised text the pattern matches exactly a final " NEW"
\* (any letter case) and is anchored at the end, so it is removed once.
StripNewTag(text) ==
  LET t == Norm(text)
      n == Len(t)
  IN  IF n >= 4 /\ Lower(SubSeq(t, n - 3, n)) = << " ", "n", "e", "w" >>
        THEN Strip(SubSeq(t, 1, n - 4), SpaceChars)
        ELSE Strip(t, SpaceChars)

\* re.sub(r"\s*&\s*", " & ", name): each ampersand, together with the
\* whitespace runs touching it, becomes " & " (leftmost, non-overlapping)
AmpSub(s) ==
  LET \* whitespace of a run that touches an ampersand is consumed
      Touches(i) ==
        /\ IsSpace(s[i])
        /\ \/ \E j \in (i + 1)..Len(s) :
                s[j] = "&" /\ \A k \in i..(j - 1) : IsSpace(s[k])
           \/ \E j \in 1..(i - 1) :
                s[j] = "&" /\ \A k \in (j + 1)..i : IsSpace(s[k])
      kept == SelectSeq(Indices(s), LAMBDA i : ~Touches(i))
      t == [n \in 1..Len(kept) |-> s[kept[n]]]
      \* every ampersand of t becomes the three characters " & "
      Before(n) == Cardinality({ m \in 1..(n - 1) : t[m] = "&" })
      First(n) == n + 2 * Before(n)
      Width(n) == IF t[n] = "&" THEN 3 ELSE 1
      total == IF t = << >> THEN 0 ELSE First(Len(t)) + Width(Len(t)) - 1
      Source(p) == CHOOSE n \in 1..Len(t) :
                     First(n) <= p /\ p < First(n) + Width(n)
  IN  [p \in 1..total |->
         LET n == Source(p)
         IN  IF t[n] = "&"
               THEN (IF p = First(n) + 1 THEN "&" ELSE " ")
               ELSE t[n]]

\* re.sub(r"\s+", " ", name)
CollapseSpaces(s) ==
  LET kept == SelectSeq(Indices(s),
                LAMBDA i : ~IsSpace(s[i]) \/ i = 1 \/ ~IsSpace(s[i - 1]))
  IN  [n \in 1..Len(kept) |-> IF IsSpace(s[kept[n]]) THEN " " ELSE s[kept[n]]]

\* a cleaner that also drops a final ", Inc."
clean_company_name_NoInc(name) ==
  LET a == Strip(StripNewTag(name), {" ", ","})
      n == Len(a)
      b == IF n > 6 /\ SubSeq(a, n - 5, n) = << ",", " ", "I", "n", "c", "." >>
             THEN SubSeq(a, 1, n - 6) ELSE a
  IN  Strip(CollapseSpaces(AmpSub(b)), SpaceChars)

\* clean_company_name(name)
clean_company_name(name) ==
  LET a == Strip(StripNewTag(name), {" ", ","})
      b == AmpSub(a)
  IN  Strip(CollapseSpaces(b), SpaceChars)

\* ------------------------------------------------------------------------
\* Filters and patterns of the extractors
\* ------------------------------------------------------------------------

\* sub in s
Contains(s, sub) ==
  \E i \in 0..(Len(s) - Len(sub)) : SubSeq(s, i + 1, i + Len(sub)) = sub

\* the occurrences of sub in s that start at position from or later,
\* counted left to right without overlap
RECURSIVE CountSubFrom(_, _, _)
CountSubFrom(s, sub, from) ==
  LET starts == { i \in from..(Len(s) - Len(sub) + 1) :
                    SubSeq(s, i, i + Len(sub) - 1) = sub }
  IN  IF starts = {} THEN 0
      ELSE LET i == CHOOSE x \in starts : \A y \in starts : x <= y
           IN  1 + CountSubFrom(s, sub, i + Len(sub))

\* s.count(sub)
CountSub(s, sub) == CountSubFrom(s, sub, 1)

Digits == << "0", "1", "2", "3", "4", "5", "6", "7", "8", "9" >>

\* the class \d
IsDigit(ch) == \E i \in 1..10 : Digits[i] = ch

IsUpperLetter(ch) == \E i \in 1..26 : UpperLetters[i] = ch

IsLowerLetter(ch) == \E i \in 1..26 : LowerLetters[i] = ch

\* re.fullmatch(r"\d+", t)
AllDigits(t) == t # << >> /\ \A i \in 1..Len(t) : IsDigit(t[i])

\* re.fullmatch(r"\d+(\.\d+)?%?", t)
NumericOrPercent(t) ==
  LET u == IF t # << >> /\ t[Len(t)] = "%" THEN SubSeq(t, 1, Len(t) - 1) ELSE t
  IN  \/ AllDigits(u)
      \/ \E k \in 2..(Len(u) - 1) :
           /\ u[k] = "."
           /\ AllDigits(SubSeq(u, 1, k - 1))
           /\ AllDigits(SubSeq(u, k + 1, Len(u)))

\* int(digits)
RECURSIVE ParseInt(_)
ParseInt(ds) ==
  IF ds = << >> THEN 0
  ELSE 10 * ParseInt(SubSeq(ds, 1, Len(ds) - 1))
         + ((CHOOSE i \in 1..10 : Digits[i] = ds[Len(ds)]) - 1)

\* length ceiling of is_header_footer
HeaderFooterMaxLen == 140

\* is_header_footer(text)
is_header_footer(text) ==
  LET t == Lower(Norm(text))
  IN  \/ t = << >>
      \/ Contains(t, << "f", "i", "e", "l", "d", "s", "e", "r", "v", "i", "c", "e", "u", "s", "a", ".", "w", "b", "r", "e", "s", "e", "a", "r", "c", "h", ".", "c", "o", "m" >>)
      \/ Contains(t, << "r", "e", "g", "i", "s", "t", "e", "r", " ", "n", "o", "w" >>)
      \/ Contains(t, << "j", "u", "m", "p", " ", "t", "o" >>)
      \/ (Contains(t, << "s", "p", "o", "n", "s", "o", "r", "s", "h", "i", "p" >>) /\ Contains(t, << "n", "o", "w", " ", "o", "p", "e", "n" >>))
      \/ Contains(t, << "r", "e", "q", "u", "e", "s", "t", " ", "a", " ", "q", "u", "o", "t", "e" >>)
      \/ Len(t) > HeaderFooterMaxLen
      \/ AllDigits(t)

\* bounds of is_person_name on the length of the text and its word count
PersonNameMinLen == 4
PersonNameMaxLen == 60
PersonNameMinWords == 2
PersonNameMaxWords == 4

\* the denylist "bad" of is_person_name
BadNameWords ==
  { << "a", "g", "e", "n", "d", "a" >>, << "s", "p", "e", "a", "k", "e", "r" >>, << "l", "i", "n", "e", "u", "p" >>, << "r", "e", "g", "i", "s", "t", "e", "r" >>, << "n", "o", "w" >>, << "a", "b", "o", "u", "t" >>, << "j", "u", "m", "p" >>, << "t", "o" >>,
    << "d", "a", "y" >>, << "a", "m" >>, << "p", "m" >> }

\* re.match(r"^[A-Z][A-Za-z'\-\.]*$", w)
CapitalizedWord(w) ==
  /\ w # << >>
  /\ IsUpperLetter(w[1])
  /\ \A i \in 2..Len(w) :
       IsUpperLetter(w[i]) \/ IsLowerLetter(w[i]) \/ w[i] \in {"'", "-", "."}

\* is_person_name(text)
is_person_name_NoLength(text) ==
  LET t == Norm(text)
      words == Split(t)
  IN  /\ t # << >>
      /\ ~Contains(t, << "," >>)
      /\ ~\E i \in 1..Len(t) : IsDigit(t[i])
      /\ Len(words) >= PersonNameMinWords
      /\ Len(words) <= PersonNameMaxWords
      /\ ~\E i \in 1..Len(words) : Lower(words[i]) \in BadNameWords
      /\ \A i \in 1..Len(words) : CapitalizedWord(words[i])

is_person_name(text) ==
  LET t == Norm(text)
      words == Split(t)
  IN  /\ t # << >>
      /\ Len(t) >= PersonNameMinLen
      /\ Len(t) <= PersonNameMaxLen
      /\ ~Contains(t, << "," >>)
      /\ ~\E i \in 1..Len(t) : IsDigit(t[i])
      /\ Len(words) >= PersonNameMinWords
      /\ Len(words) <= PersonNameMaxWords
      /\ ~\E i \in 1..Len(words) : Lower(words[i]) \in BadNameWords
      /\ \A i \in 1..Len(words) : CapitalizedWord(words[i])

\* bounds of is_valid_company_name on the cleaned length
ValidCompanyMinLen == 2
ValidCompanyMaxLen == 90

\* is_valid_company_name(text)
is_valid_company_name(text) ==
  LET t == clean_company_name(text)
  IN  /\ t # << >>
      /\ Len(t) >= ValidCompanyMinLen
      /\ Len(t) <= ValidCompanyMaxLen
      /\ ~NumericOrPercent(t)

\* the longest run of digits that ends s
RECURSIVE TrailingDigits(_)
TrailingDigits(s) ==
  IF s # << >> /\ IsDigit(s[Len(s)])
    THEN Append(TrailingDigits(SubSeq(s, 1, Len(s) - 1)), s[Len(s)])
    ELSE << >>

\* re.match(r"^(.*?)\s*\(Team of\s*(\d+)\)\s*$", line, re.IGNORECASE):
\* the line, read from its end, is whitespace, ")", the digits of group 2,
\* whitespace and "(Team of" in any letter case; group 1 is the shortest
\* prefix before the whitespace in front of the parenthesis.
TeamOfMatch(line) ==
  LET a == RStrip(line, SpaceChars)
      b == SubSeq(a, 1, Len(a) - 1)
      ds == TrailingDigits(b)
      c == RStrip(SubSeq(b, 1, Len(b) - Len(ds)), SpaceChars)
      p == SubSeq(c, 1, Len(c) - 8)
  IN  IF /\ a # << >>
         /\ a[Len(a)] = ")"
         /\ ds # << >>
         /\ Len(c) >= 8
         /\ Lower(SubSeq(c, Len(c) - 7, Len(c))) = << "(", "t", "e", "a", "m", " ", "o", "f" >>
        THEN [ ok |-> TRUE, company |-> RStrip(p, SpaceChars), digits |-> ds ]
        ELSE [ ok |-> FALSE, company |-> << >>, digits |-> << >> ]

\* ------------------------------------------------------------------------
\* Records: the rows the extractors hand to merge_all_companies
\* ------------------------------------------------------------------------

\* extractor confidence constants, in hundredths
ConfTeamOf == 95
ConfLine == 90
ConfSpeakerCard == 90
ConfScheduleLine == 75
ConfFallback == 85

Acme == << "A", "c", "m", "e" >>
AcmeUpper == << "A", "C", "M", "E" >>
AcmeInc == << "A", "c", "m", "e", ",", " ", "I", "n", "c", "." >>
AcmeNewNew == << "A", "c", "m", "e", " ", "N", "E", "W", " ", "N", "E", "W" >>
AttendeePdf == << "a", "t", "t", "e", "n", "d", "e", "e", ".", "p", "d", "f" >>
AgendaPdf == << "a", "g", "e", "n", "d", "a", ".", "p", "d", "f" >>
SpeakerPdf == << "s", "p", "e", "a", "k", "e", "r", ".", "p", "d", "f" >>
OtherPdf == << "x", ".", "p", "d", "f" >>
RoleAttendee == << "a", "t", "t", "e", "n", "d", "e", "e" >>
RoleSpeaker == << "s", "p", "e", "a", "k", "e", "r" >>
JaneDoe == << "J", "a", "n", "e", " ", "D", "o", "e" >>
BobRoe == << "B", "o", "b", " ", "R", "o", "e" >>
AlPoe == << "A", "l", " ", "P", "o", "e" >>
TitleVP == << "V", "P" >>
TitleVp == << "V", "p" >>
TitleCEO == << "C", "E", "O" >>
FlagScheduleLine ==
  << "s", "c", "h", "e", "d", "u", "l", "e", "_", "l", "i", "n", "e",
     "_", "p", "a", "r", "s", "e" >>
FlagFallback ==
  << "f", "a", "l", "l", "b", "a", "c", "k", "_", "t", "e", "a", "m",
     "_", "s", "i", "z", "e" >>

\* the dict an extractor appends to its results
Row(company, pdf, role, name, title, ts, conf, flags) ==
  [ company |-> company, source_pdf |-> pdf, role |-> role,
    contact_name |-> name, contact_title |-> title,
    team_size |-> ts, confidence |-> conf, flags |-> flags ]

\* a row of parse_attendee_list_pdf for a line "<company> (Team of <n>)"
AttendeeRow(company, pdf, n) ==
  Row(company, pdf, RoleAttendee, None, None, n, ConfTeamOf, << >>)

\* a row of parse_attendee_list_pdf for a line without the pattern
AttendeeLineRow(company, pdf) ==
  Row(company, pdf, RoleAttendee, None, None, 1, ConfLine, << >>)

\* a row of parse_agenda_speaker_lineup_pdf for one speaker card
SpeakerCardRow(company, pdf, name, title) ==
  Row(company, pdf, RoleSpeaker, name, title, NoneInt, ConfSpeakerCard, << >>)

\* a row of parse_agenda_schedule_lines for a line "Name, Title, Company"
ScheduleRow(company, pdf, name, title) ==
  Row(company, pdf, RoleSpeaker, name, title, NoneInt, ConfScheduleLine,
      << FlagScheduleLine >>)

\* a row of parse_text_fallback for a line "<company> (Team of <n>)"
FallbackRow(company, pdf, n) ==
  Row(company, pdf, RoleAttendee, None, None, n, ConfFallback,
      << FlagFallback >>)

\* The rows the input lists are drawn from.
RowPool ==
  { AttendeeRow(Acme, AttendeePdf, 4),
    AttendeeLineRow(AcmeInc, AttendeePdf),
    SpeakerCardRow(Acme, AgendaPdf, JaneDoe, TitleVP),
    SpeakerCardRow(Acme, AgendaPdf, BobRoe, None),
    SpeakerCardRow(<< >>, AgendaPdf, AlPoe, TitleCEO),
    ScheduleRow(AcmeUpper, SpeakerPdf, JaneDoe, TitleVp),
    FallbackRow(AcmeNewNew, OtherPdf, 2),
    FallbackRow(Acme, OtherPdf, 0) }

\* longest input list
MaxRecords == 3

RowLists == UNION { [1..n -> RowPool] : n \in 0..MaxRecords }

\* the orders random.shuffle can leave a list of n rows in
Perms(n) == { f \in [1..n -> 1..n] : \A i, j \in 1..n : f[i] = f[j] => i = j }

Permuted(rows, f) == [i \in 1..Len(rows) |-> rows[f[i]]]

\* ------------------------------------------------------------------------
\* merge_all_companies
\* ------------------------------------------------------------------------

\* key = company.lower()
CompanyKey(company) == Lower(company)

\* merged[key] = {...} on the first sighting of a key
NewProfile(c, company) ==
  [ key |-> CompanyKey(company),
    company |-> company,
    source_pdfs |-> {},
    roles |-> {},
    team_size |-> c.team_size,
    confidence |-> c.confidence,
    flags |-> { c.flags[i] : i \in 1..Len(c.flags) },
    contacts |-> << >> ]

\* if c.get("source_pdf"): m["source_pdfs"].add(...)
MergeSourcePdfs(pdfs, c) ==
  IF TruthyStr(c.source_pdf) THEN pdfs \cup { c.source_pdf } ELSE pdfs

\* if c.get("role"): m["roles"].add(...)
MergeRoles(roles, c) ==
  IF TruthyStr(c.role) THEN roles \cup { c.role } ELSE roles

\* if c.get("team_size"): m["team_size"] = max(m or 0, c or 0) or m
MergeTeamSize(mts, cts) ==
  IF TruthyInt(cts)
    THEN LET v == Max(OrZero(mts), OrZero(cts))
         IN  IF v # 0 THEN v ELSE mts
    ELSE mts

\* the incoming confidence overwrites the stored one
MergeConfidence_LastWins(mconf, cconf) == cconf

\* the smaller confidence is kept
MergeConfidence_Min(mconf, cconf) == IF mconf <= cconf THEN mconf ELSE cconf

\* m["confidence"] = max(m.get("confidence", 0), c.get("confidence", 0))
MergeConfidence(mconf, cconf) == Max(mconf, cconf)

\* the incoming flags replace the stored ones
MergeFlags_Overwrite(mflags, cflags) ==
  { cflags[i] : i \in 1..Len(cflags) }

\* for fl in c.get("flags", []): m["flags"].add(fl)
MergeFlags(mflags, cflags) ==
  mflags \cup { cflags[i] : i \in 1..Len(cflags) }

\* contact = {"name": _norm(name), "title": _norm(title or "") or None, ...}
NewContact(c) ==
  LET t == Norm(IF TruthyStr(c.contact_title) THEN c.contact_title ELSE << >>)
  IN  [ name |-> Norm(c.contact_name),
        title |-> IF t # << >> THEN t ELSE None,
        source_pdf |-> c.source_pdf ]

\* (ct.get("title") or "")
TitleOrEmpty(t) == IF TruthyStr(t) THEN t ELSE << >>

\* the comparison without .lower()
SameContact_CaseSensitive(ct, contact) ==
  /\ ct.name = contact.name
  /\ TitleOrEmpty(ct.title) = TitleOrEmpty(contact.title)

\* the test of the any(...) over m["contacts"]
SameContact(ct, contact) ==
  /\ Lower(ct.name) = Lower(contact.name)
  /\ Lower(TitleOrEmpty(ct.title)) = Lower(TitleOrEmpty(contact.title))

\* the new contact inserted at the front
MergeContacts_Prepend(contacts, c) ==
  IF TruthyStr(c.contact_name)
    THEN LET contact == NewContact(c)
         IN  IF \E i \in 1..Len(contacts) : SameContact(contacts[i], contact)
               THEN contacts
               ELSE << contact >> \o contacts
    ELSE contacts

\* only the first contact of a company is kept
MergeContacts_FirstOnly(contacts, c) ==
  IF TruthyStr(c.contact_name) /\ contacts = << >>
    THEN << NewContact(c) >>
    ELSE contacts

\* if c.get("contact_name"): append unless an existing contact matches
MergeContacts(contacts, c) ==
  IF TruthyStr(c.contact_name)
    THEN LET contact == NewContact(c)
         IN  IF \E i \in 1..Len(contacts) : SameContact(contacts[i], contact)
               THEN contacts
               ELSE Append(contacts, contact)
    ELSE contacts

\* m = merged[key] and the updates of the loop body on it
UpdateProfile(m, c) ==
  [ m EXCEPT !.source_pdfs = MergeSourcePdfs(@, c),
             !.roles = MergeRoles(@, c),
             !.team_size = MergeTeamSize(@, c.team_size),
             !.confidence = MergeConfidence(@, c.confidence),
             !.flags = MergeFlags(@, c.flags),
             !.contacts = MergeContacts(@, c) ]

\* key in merged; merged is the dict as the list of its values in
\* insertion order
HasKey(merged, key) == \E i \in 1..Len(merged) : merged[i].key = key

KeyIndex(merged, key) == CHOOSE i \in 1..Len(merged) : merged[i].key = key

\* a new key starts the dict afresh
MergeRecord_Reset(merged, c) ==
  LET company == clean_company_name(c.company)
      key == CompanyKey(company)
  IN  IF company = << >> THEN merged
      ELSE LET base == IF HasKey(merged, key) THEN merged
                       ELSE << NewProfile(c, company) >>
               k == KeyIndex(base, key)
           IN  [base EXCEPT ![k] = UpdateProfile(@, c)]

\* one iteration of "for c in all_companies"
MergeRecord(merged, c) ==
  LET company == clean_company_name(c.company)
      key == CompanyKey(company)
  IN  IF company = << >> THEN merged
      ELSE LET base == IF HasKey(merged, key) THEN merged
                       ELSE Append(merged, NewProfile(c, company))
               k == KeyIndex(base, key)
           IN  [base EXCEPT ![k] = UpdateProfile(@, c)]

\* the cleaned display name written back into the row
RecordAfterMerge_InPlace(c, m) == [c EXCEPT !.company = m.company]

\* the row c as the loop body leaves it: the body only reads c, and the
\* profile takes copies (set(c.get("flags", [])), a new contact dict)
RecordAfterMerge(c, m) == c

\* the body of "for m in merged.values()": the output row
FinalProfile(m) ==
  [ company |-> m.company,
    team_size |-> m.team_size,
    confidence |-> m.confidence,
    flags |-> Sorted(m.flags),
    contacts |-> m.contacts,
    source_pdf |-> Join(<< ",", " " >>, Sorted(m.source_pdfs)),
    role |-> Join(<< ",", " " >>, Sorted(m.roles)),
    contact_name |-> IF m.contacts # << >> THEN m.contacts[1].name ELSE None,
    contact_title |-> IF m.contacts # << >> THEN m.contacts[1].title ELSE None ]

Finalize(merged) == [i \in 1..Len(merged) |-> FinalProfile(merged[i])]

\* the whole loop over rows, from the dict merged
RECURSIVE MergeLoop(_, _)
MergeLoop(merged, rows) ==
  IF rows = << >> THEN merged
  ELSE MergeLoop(MergeRecord(merged, rows[1]), Tail(rows))

\* merge_all_companies(all_companies) as one call
merge_all_companies(rows) == Finalize(MergeLoop(<< >>, rows))

\* ------------------------------------------------------------------------
\* State
\* ------------------------------------------------------------------------
VARIABLES
  input,          \* the rows as the caller built them (never written)
  all_companies,  \* the list object handed to merge_all_companies
  pos,            \* rows consumed by the loop of the first call
  merged,         \* the dict of the first call
  pc,             \* "loop", "done" (first call returned), "again"
  out,            \* result of the first call
  shuffled,       \* the list handed to the second call
  out2            \* result of the second call

\* extract_companies_from_pdfs
VARIABLES
  pdf_files,         \* the documents glob.glob found, in its order
  file_pos,          \* documents consumed by "for pdf_path in pdf_files"
  all_rows,          \* the rows gathered so far
  parse_errors,      \* the documents reported by PDF_PARSE_ERROR
  merged_companies,  \* the result of the merge of all_rows
  bpc                \* "idle", "loop", "merged", "empty"

\* parse_conference_pdf on one document
VARIABLES
  doc,          \* the document: its file name and its pages
  ppc,          \* "idle", "dispatch", "attendee", "lineup", "schedule",
                \* "fallback", "done"
  page_index,   \* pages consumed by the page loop of the running extractor
  results,      \* the results list of the running extractor
  lineup_rows,  \* what parse_agenda_speaker_lineup_pdf returned
  parsed,       \* what parse_conference_pdf returned
  scanned       \* << extractor, page number >> for every page whose lines
                \* an extractor has read (history of the page loops)

\* one block of a speaker-lineup page
VARIABLES
  card,      \* the block handed to the card loop body
  card_rows, \* the rows the loop body appended for it
  cpc        \* "idle", "card", "done"

\* one text handed to the filters
VARIABLES
  arg,      \* the text
  is_name,  \* "idle", "call", then what is_person_name(text) returned
  cleaned   \* the results of clean_company_name applied to the text, then
            \* to its own result

filter_vars == << arg, is_name, cleaned >>

\* validate_companies on the pipeline thread
VARIABLES
  raw_companies,        \* data['companies'] of raw_companies.json
  min_confidence,       \* the threshold, in hundredths
  max_companies,        \* the limit, NoneInt when not given
  to_validate,          \* companies: what the loop iterates over
  idx,                  \* companies the loop has taken
  research_data,        \* description of what research_company returned
  validation_data,      \* reasoning of what validate_icp returned
  validated_companies,  \* the validated list
  vpc                   \* the statement the pipeline thread is at

\* the LiveLogger instance and the thread of the interface
VARIABLES
  logs,       \* self.logs, the action of each entry
  lock,       \* self.lock: "free" or the thread that holds it
  cancelled,  \* self.cancelled
  upc         \* "idle", or "cancel_log": inside cancel(), at self.log(...)

validate_vars ==
  << raw_companies, min_confidence, max_companies, to_validate, idx,
     research_data, validation_data, validated_companies, vpc >>

logger_vars == << logs, lock, cancelled, upc >>

merge_vars == << input, all_companies, pos, merged, pc, out, shuffled, out2 >>

batch_vars ==
  << pdf_files, file_pos, all_rows, parse_errors, merged_companies, bpc >>

parse_vars ==
  << doc, ppc, page_index, results, lineup_rows, parsed, scanned >>

card_vars == << card, card_rows, cpc >>

\* the state of the calls modelled further down
ext_vars == << filter_vars, validate_vars, logger_vars >>

vars == << merge_vars, batch_vars, parse_vars, card_vars, ext_vars >>

\* validate_companies is not running
ValidateIdle ==
  /\ raw_companies = << >>
  /\ min_confidence = 0
  /\ max_companies = NoneInt
  /\ to_validate = << >>
  /\ idx = 0
  /\ research_data = "none"
  /\ validation_data = "none"
  /\ validated_companies = << >>
  /\ vpc = "idle"

\* the logger is as constructed and no thread of the interface runs
LoggerIdle ==
  /\ logs = << >>
  /\ lock = "free"
  /\ cancelled = FALSE
  /\ upc = "idle"

\* no filter is being called
FilterIdle ==
  /\ arg = << >>
  /\ is_name = "idle"
  /\ cleaned = << >>

\* none of the calls modelled further down is running
ExtIdle == FilterIdle /\ ValidateIdle /\ LoggerIdle

\* no document is being parsed
ParseIdle ==
  /\ doc = [filename |-> << >>, pages |-> << >>]
  /\ ppc = "idle"
  /\ page_index = 0
  /\ results = << >>
  /\ lineup_rows = << >>
  /\ parsed = << >>
  /\ scanned = {}

\* no speaker card is being read
CardIdle ==
  /\ card = << >>
  /\ card_rows = << >>
  /\ cpc = "idle"

\* no batch is running
BatchIdle ==
  /\ pdf_files = << >>
  /\ file_pos = 0
  /\ all_rows = << >>
  /\ parse_errors = << >>
  /\ merged_companies = << >>
  /\ bpc = "idle"

\* no direct call of merge_all_companies is running
MergeIdle ==
  /\ input = << >>
  /\ all_companies = << >>
  /\ pos = 0
  /\ merged = << >>
  /\ pc = "idle"
  /\ out = << >>
  /\ shuffled = << >>
  /\ out2 = << >>

Init ==
  /\ BatchIdle
  /\ ParseIdle
  /\ CardIdle
  /\ ExtIdle
  /\ input \in RowLists
  /\ all_companies = input
  /\ pos = 0
  /\ merged = << >>
  /\ pc = "loop"
  /\ out = << >>
  /\ shuffled = << >>
  /\ out2 = << >>

\* the row consumed by the next iteration and its cleaned company
NextRow == all_companies[pos + 1]

\* an iteration that hits "if not company: continue"
SkipRow ==
  /\ pc = "loop"
  /\ pos < Len(all_companies)
  /\ clean_company_name(NextRow.company) = << >>
  /\ pos' = pos + 1
  /\ UNCHANGED << input, all_companies, merged, pc, out, shuffled, out2 >>
  /\ UNCHANGED << batch_vars, parse_vars, card_vars, ext_vars >>

\* an iteration that creates or updates a profile
MergeRow ==
  /\ pc = "loop"
  /\ pos < Len(all_companies)
  /\ clean_company_name(NextRow.company) # << >>
  /\ merged' = MergeRecord(merged, NextRow)
  /\ LET key == CompanyKey(clean_company_name(NextRow.company))
         m == merged'[KeyIndex(merged', key)]
     IN  all_companies' =
           [all_companies EXCEPT ![pos + 1] = RecordAfterMerge(@, m)]
  /\ pos' = pos + 1
  /\ UNCHANGED << input, pc, out, shuffled, out2 >>
  /\ UNCHANGED << batch_vars, parse_vars, card_vars, ext_vars >>

\* the output loop and the return of the first call
Return ==
  /\ pc = "loop"
  /\ pos = Len(all_companies)
  /\ out' = Finalize(merged)
  /\ pc' = "done"
  /\ UNCHANGED << input, all_companies, pos, merged, shuffled, out2 >>
  /\ UNCHANGED << batch_vars, parse_vars, card_vars, ext_vars >>

\* a second call of merge_all_companies on the same rows in any order
\* (the identity order is the same list again)
SecondCall ==
  /\ pc = "done"
  /\ \E f \in Perms(Len(all_companies)) :
       /\ shuffled' = Permuted(all_companies, f)
       /\ out2' = merge_all_companies(shuffled')
  /\ pc' = "again"
  /\ UNCHANGED << input, all_companies, pos, merged, out >>
  /\ UNCHANGED << batch_vars, parse_vars, card_vars, ext_vars >>

Next == SkipRow \/ MergeRow \/ Return \/ SecondCall

Spec == Init /\ [][Next]_vars

\* ------------------------------------------------------------------------
\* extract_companies_from_pdfs: the loop over the documents
\* ------------------------------------------------------------------------

\* A document as the loop sees it: parse_generic_pdf(pdf_path) either
\* returns rows or raises; built holds the rows the parser had appended to
\* its local results list when it returned or raised.
PdfFile(name, built, raises) ==
  [ name |-> name, built |-> built, raises |-> raises ]

PdfPool ==
  UNION {
  { PdfFile(AttendeePdf,
            << AttendeeRow(Acme, AttendeePdf, 4),
               AttendeeLineRow(AcmeInc, AttendeePdf) >>, r),
    PdfFile(AgendaPdf,
            << SpeakerCardRow(Acme, AgendaPdf, JaneDoe, TitleVP),
               SpeakerCardRow(Acme, AgendaPdf, BobRoe, None) >>, r),
    PdfFile(SpeakerPdf,
            << ScheduleRow(AcmeUpper, SpeakerPdf, JaneDoe, TitleVp) >>, r),
    PdfFile(OtherPdf, << FallbackRow(Acme, OtherPdf, 2) >>, r) }
  : r \in BOOLEAN }

\* most documents in the input directory
MaxFiles == 3

\* glob.glob returns each path once
PdfFileLists ==
  { fs \in UNION { [1..n -> PdfPool] : n \in 0..MaxFiles } :
      \A i, j \in 1..Len(fs) : fs[i].name = fs[j].name => i = j }

\* the try block kept the rows of a document that raised
RowsAfterFile_KeepBuilt(rows, f) == rows \o f.built

\* all_rows after the try/except of one document: all_rows.extend(rows) is
\* the last statement of the try block
RowsAfterFile(rows, f) ==
  IF f.raises THEN rows ELSE rows \o f.built

\* the PDF_PARSE_ERROR entries after the try/except of one document
ErrorsAfterFile(errors, f) ==
  IF f.raises THEN Append(errors, f.name) ELSE errors

InitBatch ==
  /\ MergeIdle
  /\ ParseIdle
  /\ CardIdle
  /\ ExtIdle
  /\ pdf_files \in PdfFileLists
  /\ file_pos = 0
  /\ all_rows = << >>
  /\ parse_errors = << >>
  /\ merged_companies = << >>
  /\ bpc = "loop"

\* "if not pdf_files: return {companies: [], ...}"
NoPdfs ==
  /\ bpc = "loop"
  /\ pdf_files = << >>
  /\ bpc' = "empty"
  /\ UNCHANGED << pdf_files, file_pos, all_rows, parse_errors, merged_companies >>
  /\ UNCHANGED << merge_vars, parse_vars, card_vars, ext_vars >>

\* one iteration of the loop whose parse returns
ParseFile ==
  /\ bpc = "loop"
  /\ file_pos < Len(pdf_files)
  /\ ~pdf_files[file_pos + 1].raises
  /\ all_rows' = RowsAfterFile(all_rows, pdf_files[file_pos + 1])
  /\ parse_errors' = ErrorsAfterFile(parse_errors, pdf_files[file_pos + 1])
  /\ file_pos' = file_pos + 1
  /\ UNCHANGED << pdf_files, merged_companies, bpc >>
  /\ UNCHANGED << merge_vars, parse_vars, card_vars, ext_vars >>

\* one iteration of the loop whose parse raises: "except Exception"
ParseFileFails ==
  /\ bpc = "loop"
  /\ file_pos < Len(pdf_files)
  /\ pdf_files[file_pos + 1].raises
  /\ all_rows' = RowsAfterFile(all_rows, pdf_files[file_pos + 1])
  /\ parse_errors' = ErrorsAfterFile(parse_errors, pdf_files[file_pos + 1])
  /\ file_pos' = file_pos + 1
  /\ UNCHANGED << pdf_files, merged_companies, bpc >>
  /\ UNCHANGED << merge_vars, parse_vars, card_vars, ext_vars >>

\* merged_companies = merge_all_companies(all_rows)
MergeBatch ==
  /\ bpc = "loop"
  /\ pdf_files # << >>
  /\ file_pos = Len(pdf_files)
  /\ merged_companies' = merge_all_companies(all_rows)
  /\ bpc' = "merged"
  /\ UNCHANGED << pdf_files, file_pos, all_rows, parse_errors >>
  /\ UNCHANGED << merge_vars, parse_vars, card_vars, ext_vars >>

NextBatch == NoPdfs \/ ParseFile \/ ParseFileFails \/ MergeBatch

SpecBatch == InitBatch /\ [][NextBatch]_vars

\* ------------------------------------------------------------------------
\* Vocabulary of the properties
\* ------------------------------------------------------------------------

\* the row takes part in the merge (it is not skipped)
Contributes(c) == clean_company_name(c.company) # << >>

\* the key the merge files the row under
RowKey(c) == CompanyKey(clean_company_name(c.company))

\* the rows of the input list filed under key k
RowsOfKey(rows, k) ==
  { i \in 1..Len(rows) : Contributes(rows[i]) /\ RowKey(rows[i]) = k }

\* the case-insensitive (name, title) pair of a contact or of a row
ContactPair(name, title) == << Lower(Norm(name)), Lower(TitleOrEmpty(title)) >>

ContactPairs(contacts) ==
  { ContactPair(contacts[i].name, contacts[i].title) : i \in 1..Len(contacts) }

SeqToSet(q) == { q[i] : i \in 1..Len(q) }

IsPrefix(a, b) == Len(a) <= Len(b) /\ SubSeq(b, 1, Len(a)) = a

\* the order-insensitive content of an output profile
ProfileDigest(p) ==
  [ key |-> Lower(p.company),
    source_pdf |-> p.source_pdf,
    role |-> p.role,
    team_size |-> OrZero(p.team_size),
    confidence |-> p.confidence,
    flags |-> p.flags,
    contacts |-> ContactPairs(p.contacts) ]

\* ------------------------------------------------------------------------
\* C1  Order independence
\* ------------------------------------------------------------------------

\* C1 (as claimed): for every list L and every permutation P of L,
\* merge_all_companies(P) yields the same final profiles as
\* merge_all_companies(L): the same display name, source_pdf, role,
\* team_size, confidence, flags, contacts and contact_name/contact_title.
C1_SameProfilesAnyOrder ==
  pc = "again" => SeqToSet(out2) = SeqToSet(out)

\* C1 (amended): for every list L and every permutation P of L, the two
\* results have the same canonical keys (lowercased display names) and per
\* key the same source_pdf, role, confidence and flags, the same team_size
\* up to null/0, and the same set of case-insensitive (name, title)
\* contact pairs; one profile per key in both.
C1_SameDigestsAnyOrder ==
  pc = "again" =>
    /\ { ProfileDigest(out2[i]) : i \in 1..Len(out2) }
         = { ProfileDigest(out[i]) : i \in 1..Len(out) }
    /\ Len(out2) = Len(out)

\* a shuffle that changed the profiles: two contacts in the other order
C1_Witness ==
  /\ pc = "again"
  /\ shuffled # all_companies
  /\ \E i \in 1..Len(out), j \in 1..Len(out2) :
       /\ Lower(out[i].company) = Lower(out2[j].company)
       /\ Len(out[i].contacts) = 2
       /\ out[i].contact_name # out2[j].contact_name

\* ------------------------------------------------------------------------
\* C2  Idempotence
\* ------------------------------------------------------------------------

\* C2: the first run leaves the input rows unchanged, and a second run
\* over the same list returns the first run's output field for field.
C2_Idempotent ==
  /\ all_companies = input
  /\ (pc = "again" /\ shuffled = input) => out2 = out

\* the same list of three rows merged twice into a non-empty result
C2_Witness ==
  /\ pc = "again"
  /\ shuffled = input
  /\ Len(input) = 3
  /\ Len(out2) >= 2
  /\ \E i \in 1..Len(out2) : Len(out2[i].contacts) >= 1

\* ------------------------------------------------------------------------
\* C3  Legal suffixes
\* ------------------------------------------------------------------------

\* the legal suffixes the specification lists
LegalSuffixes ==
  { << ",", " ", "I", "n", "c", "." >>,
    << " ", "L", "L", "C" >>,
    << " ", "C", "o", "r", "p", "." >>,
    << " ", "L", "t", "d", "." >> }

\* long is bare followed by one listed legal suffix
SuffixVariant(long, bare) ==
  bare # << >> /\ \E sfx \in LegalSuffixes : long = bare \o sfx

\* C3 (as claimed): two rows whose company strings differ only by a listed
\* legal suffix get the same canonical key and end in one profile whose
\* display name is the suffix-stripped form.
C3_SuffixVariantsUnified ==
  pc = "done" =>
    \A i, j \in 1..Len(input) :
      SuffixVariant(input[i].company, input[j].company) =>
        /\ RowKey(input[i]) = RowKey(input[j])
        /\ \E k \in 1..Len(out) :
             /\ out[k].company = clean_company_name(input[j].company)
             /\ \A l \in 1..Len(out) :
                  Lower(out[l].company) = RowKey(input[i]) => l = k

\* C3 (amended): clean_company_name strips no legal suffix: two rows whose
\* company strings differ only by a listed legal suffix (the bare one
\* cleaning to a non-empty name) get different canonical keys and end in
\* two separate profiles, and the profile of the suffixed row stores a
\* display name with the suffix still on it.
C3_SuffixVariantsKeptApart ==
  pc = "done" =>
    \A i, j \in 1..Len(input) :
      (/\ SuffixVariant(input[i].company, input[j].company)
       /\ Contributes(input[j])) =>
        /\ RowKey(input[i]) # RowKey(input[j])
        /\ \E k, l \in 1..Len(out) :
             /\ k # l
             /\ Lower(out[k].company) = RowKey(input[i])
             /\ Lower(out[l].company) = RowKey(input[j])
             /\ \E sfx \in LegalSuffixes :
                  Lower(out[k].company) = Lower(out[l].company) \o Lower(sfx)

\* "Acme, Inc." and "Acme" merged in one run
C3_Witness ==
  /\ pc = "done"
  /\ \E i, j \in 1..Len(input) :
       SuffixVariant(input[i].company, input[j].company)
  /\ Len(out) >= 2

\* ------------------------------------------------------------------------
\* C4  Key uniqueness
\* ------------------------------------------------------------------------

\* C4: the output holds at most one profile per canonical key: no two
\* output profiles have display names whose canonical key
\* (clean_company_name, then lowercase) is equal, and every input row with
\* a non-empty cleaned company is filed under exactly one profile.
C4_OneProfilePerKey ==
  pc = "done" =>
    /\ \A k, l \in 1..Len(out) :
         CompanyKey(clean_company_name(out[k].company))
           = CompanyKey(clean_company_name(out[l].company)) => k = l
    /\ \A i \in 1..Len(input) :
         Contributes(input[i]) =>
           Cardinality({ k \in 1..Len(out) :
                           Lower(out[k].company) = RowKey(input[i]) }) = 1

\* ------------------------------------------------------------------------
\* C5  Confidence
\* ------------------------------------------------------------------------

\* the largest confidence among the rows filed under key k
MaxConfidenceOfKey(rows, k) ==
  LET cs == { rows[i].confidence : i \in RowsOfKey(rows, k) }
  IN  CHOOSE x \in cs : \A y \in cs : y <= x

\* C5: a profile's confidence never decreases at any step of the merge,
\* and at the end it is the maximum confidence of the rows merged into it.
C5_ConfidenceRunningMax ==
  /\ [][\A k \in 1..Len(merged) :
          /\ k <= Len(merged')
          /\ merged'[k].key = merged[k].key
          /\ merged'[k].confidence >= merged[k].confidence]_vars
  /\ [](pc = "done" =>
          \A k \in 1..Len(out) :
            out[k].confidence = MaxConfidenceOfKey(input, Lower(out[k].company)))

\* a profile whose confidence was raised by a later row
C5_Witness ==
  /\ pc = "done"
  /\ \E k \in 1..Len(out) :
       LET first == CHOOSE i \in RowsOfKey(input, Lower(out[k].company)) :
                      \A j \in RowsOfKey(input, Lower(out[k].company)) : i <= j
       IN  out[k].confidence > input[first].confidence

\* ------------------------------------------------------------------------
\* C6  Team size
\* ------------------------------------------------------------------------

\* the largest defined team size among the rows filed under key k, None
\* when no row defines one (None is below every int(\d+) value)
MaxTeamSizeOfKey(rows, k) ==
  LET ts == { rows[i].team_size : i \in RowsOfKey(rows, k) }
  IN  CHOOSE x \in ts : \A y \in ts : y <= x

\* C6: once a profile's team_size is known it never decreases and is never
\* reset to null by a later row, and at the end it is the maximum of the
\* defined team sizes of the rows merged into the profile.
C6_TeamSizeRunningMax ==
  /\ [][\A k \in 1..Len(merged) :
          merged[k].team_size # NoneInt =>
            /\ k <= Len(merged')
            /\ merged'[k].team_size # NoneInt
            /\ merged'[k].team_size >= merged[k].team_size]_vars
  /\ [](pc = "done" =>
          \A k \in 1..Len(out) :
            out[k].team_size = MaxTeamSizeOfKey(input, Lower(out[k].company)))

\* ------------------------------------------------------------------------
\* C7  Contacts are append-only
\* ------------------------------------------------------------------------

\* C7: at every step of the merge the contacts list of a profile before
\* the step is a prefix of its contacts list after the step, and the
\* output row carries that list.
C7_ContactsAppendOnly ==
  /\ [][\A k \in 1..Len(merged) :
          /\ k <= Len(merged')
          /\ IsPrefix(merged[k].contacts, merged'[k].contacts)]_vars
  /\ [](pc = "done" =>
          /\ Len(out) = Len(merged)
          /\ \A k \in 1..Len(out) : out[k].contacts = merged[k].contacts)

\* a profile that took a second contact after its first
C7_Witness ==
  /\ pc = "done"
  /\ \E k \in 1..Len(out) :
       /\ Len(out[k].contacts) = 2
       /\ out[k].contacts[1].name # out[k].contacts[2].name

\* ------------------------------------------------------------------------
\* C8  No silent loss of contacts
\* ------------------------------------------------------------------------

\* C8: for every (name, title) pair carried by an input row of a company,
\* the final contacts list of that company's profile has an entry matching
\* the pair case-insensitively.
C8_NoContactLost ==
  pc = "done" =>
    \A i \in 1..Len(input) :
      (Contributes(input[i]) /\ TruthyStr(input[i].contact_name)) =>
        \E k \in 1..Len(out) :
          /\ Lower(out[k].company) = RowKey(input[i])
          /\ \E n \in 1..Len(out[k].contacts) :
               /\ Lower(out[k].contacts[n].name) = Lower(input[i].contact_name)
               /\ Lower(TitleOrEmpty(out[k].contacts[n].title))
                    = Lower(TitleOrEmpty(input[i].contact_title))

\* two rows of one company carrying different pairs, both merged
C8_Witness ==
  /\ pc = "done"
  /\ \E i, j \in 1..Len(input) :
       /\ Contributes(input[i])
       /\ RowKey(input[i]) = RowKey(input[j])
       /\ TruthyStr(input[i].contact_name)
       /\ TruthyStr(input[j].contact_name)
       /\ ContactPair(input[i].contact_name, input[i].contact_title)
            # ContactPair(input[j].contact_name, input[j].contact_title)

\* ------------------------------------------------------------------------
\* C9  Contact de-duplication
\* ------------------------------------------------------------------------

\* two rows of one company with the same case-insensitive pair from two
\* different documents
SameSpeakerTwoDocs(a, b) ==
  /\ Contributes(a)
  /\ RowKey(a) = RowKey(b)
  /\ TruthyStr(a.contact_name)
  /\ TruthyStr(b.contact_name)
  /\ ContactPair(a.contact_name, a.contact_title)
       = ContactPair(b.contact_name, b.contact_title)
  /\ a.source_pdf # b.source_pdf

\* C9: in every state of the merge no profile holds two contacts equal on
\* the case-insensitive (name, title) pair; two speaker rows with the same
\* name and title for one company from two documents leave exactly one
\* contact for the pair while the profile's source documents hold both.
C9_ContactsDeduplicated ==
  /\ \A k \in 1..Len(merged) :
       \A a, b \in 1..Len(merged[k].contacts) :
         ContactPair(merged[k].contacts[a].name, merged[k].contacts[a].title)
           = ContactPair(merged[k].contacts[b].name, merged[k].contacts[b].title)
         => a = b
  /\ pc = "done" =>
       \A i, j \in 1..Len(input) :
         SameSpeakerTwoDocs(input[i], input[j]) =>
           \E k \in 1..Len(out) :
             /\ Lower(out[k].company) = RowKey(input[i])
             /\ Cardinality({ n \in 1..Len(out[k].contacts) :
                   ContactPair(out[k].contacts[n].name, out[k].contacts[n].title)
                     = ContactPair(input[i].contact_name, input[i].contact_title) })
                  = 1
             /\ { input[i].source_pdf, input[j].source_pdf }
                  \subseteq merged[k].source_pdfs
             /\ out[k].source_pdf = Join(<< ",", " " >>, Sorted(merged[k].source_pdfs))

\* the same speaker of one company seen in two documents
C9_Witness ==
  /\ pc = "done"
  /\ \E i, j \in 1..Len(input) : SameSpeakerTwoDocs(input[i], input[j])

\* ------------------------------------------------------------------------
\* C10  Flags
\* ------------------------------------------------------------------------

\* the flags of the rows filed under key k
FlagsOfKey(rows, k) ==
  UNION { SeqToSet(rows[i].flags) : i \in RowsOfKey(rows, k) }

\* C10: a profile's flag set never shrinks while rows are merged, and the
\* final flags are the union of the flags of the rows merged into it.
C10_FlagsAccumulate ==
  /\ [][\A k \in 1..Len(merged) :
          /\ k <= Len(merged')
          /\ merged[k].flags \subseteq merged'[k].flags]_vars
  /\ [](pc = "done" =>
          \A k \in 1..Len(out) :
            /\ SeqToSet(out[k].flags) = FlagsOfKey(input, Lower(out[k].company))
            /\ Len(out[k].flags) = Cardinality(SeqToSet(out[k].flags)))

\* a profile whose flags come from two rows with different flags
C10_Witness ==
  /\ pc = "done"
  /\ \E k \in 1..Len(out) : Len(out[k].flags) = 2

\* ------------------------------------------------------------------------
\* C11  No deletion path
\* ------------------------------------------------------------------------

\* C11: once a profile for a canonical key has been created it exists in
\* every later state of the run, under the same key and at the same place
\* of the dict, and it appears in the output; the set of keys only grows.
C11_ProfilesPersist ==
  /\ [][\A k \in 1..Len(merged) :
          /\ k <= Len(merged')
          /\ merged'[k].key = merged[k].key
          /\ merged'[k].company = merged[k].company]_vars
  /\ [](pc = "done" =>
          /\ Len(out) = Len(merged)
          /\ \A k \in 1..Len(out) : out[k].company = merged[k].company)

\* a run that created three profiles, all of them in the output
C11_Witness ==
  /\ pc = "done"
  /\ Len(merged) = 3
  /\ Len(out) = 3

\* ------------------------------------------------------------------------
\* C12  Skip-and-continue on document failure
\* ------------------------------------------------------------------------

\* the rows of the documents that parsed, in document order
RECURSIVE RowsOfParsed(_)
RowsOfParsed(fs) ==
  IF fs = << >> THEN << >>
  ELSE (IF fs[1].raises THEN << >> ELSE fs[1].built) \o RowsOfParsed(Tail(fs))

\* the names of the documents that failed, in document order
RECURSIVE NamesOfFailed(_)
NamesOfFailed(fs) ==
  IF fs = << >> THEN << >>
  ELSE (IF fs[1].raises THEN << fs[1].name >> ELSE << >>)
         \o NamesOfFailed(Tail(fs))

\* C12: a failing document never aborts the batch: every iteration moves
\* on to the next document, a failed document contributes no row and is
\* reported, and the merged output is the merge of the rows of exactly the
\* documents that parsed.
C12_SkipAndContinue ==
  /\ [][(bpc = "loop" /\ file_pos < Len(pdf_files)) =>
          (bpc' = "loop" /\ file_pos' = file_pos + 1)]_vars
  /\ [](/\ all_rows = RowsOfParsed(SubSeq(pdf_files, 1, file_pos))
        /\ parse_errors = NamesOfFailed(SubSeq(pdf_files, 1, file_pos))
        /\ bpc = "merged" =>
             /\ file_pos = Len(pdf_files)
             /\ merged_companies = merge_all_companies(RowsOfParsed(pdf_files)))

\* a batch whose first document failed and whose later one was merged
C12_Witness ==
  /\ bpc = "merged"
  /\ Len(pdf_files) >= 2
  /\ pdf_files[1].raises
  /\ ~pdf_files[Len(pdf_files)].raises
  /\ Len(merged_companies) >= 1

\* ------------------------------------------------------------------------
\* Page layout as PyMuPDF hands it to the extractors
\* ------------------------------------------------------------------------
\* A page is the list of its text blocks, a block the list of its lines,
\* a line the list of its spans.  page.get_text("dict") gives this
\* structure, page.get_text("blocks") gives each block as the text of its
\* lines, page.get_text() gives the lines of all blocks; every line ends
\* with a line break, and no span text holds one.

Span(text, font) == [text |-> text, font |-> font]

\* "".join(s.get("text", "") for s in line.get("spans", []))
RECURSIVE SpanTexts(_)
SpanTexts(line) ==
  IF line = << >> THEN << >> ELSE line[1].text \o SpanTexts(Tail(line))

\* _line_text(line)
LineText(line) == Norm(SpanTexts(line))

\* _dominant_font(line): the most common font of the spans that carry
\* text, the first one met among equally common fonts
DominantFont(line) ==
  LET fonts == SelectSeq(line, LAMBDA s : Strip(s.text, SpaceChars) # << >>)
      Count(f) == Cardinality({ i \in 1..Len(fonts) : fonts[i].font = f })
  IN  IF fonts = << >> THEN << >>
      ELSE fonts[CHOOSE i \in 1..Len(fonts) :
                   /\ \A k \in 1..Len(fonts) :
                        Count(fonts[k].font) <= Count(fonts[i].font)
                   /\ \A k \in 1..(i - 1) :
                        Count(fonts[k].font) < Count(fonts[i].font)].font

FontBold == << "G", "o", "t", "h", "a", "m", "-", "B", "o", "l", "d" >>
FontXBold == << "G", "o", "t", "h", "a", "m", "-", "X", "B", "o", "l", "d" >>
FontLight == << "G", "o", "t", "h", "a", "m", "-", "L", "i", "g", "h", "t" >>
FontMedium == << "G", "o", "t", "h", "a", "m", "-", "M", "e", "d", "i", "u", "m" >>
FontBoldLight == << "G", "o", "t", "h", "a", "m", "-", "B", "o", "l", "d", "L", "i", "g", "h", "t" >>

\* _is_company_font(font)
is_company_font_AnyBold(font) == Contains(Lower(font), << "b", "o", "l", "d" >>)

is_company_font(font) ==
  /\ Contains(Lower(font), << "b", "o", "l", "d" >>)
  /\ ~Contains(Lower(font), << "l", "i", "g", "h", "t" >>)

\* the lines of a block as text: block_text.splitlines()
BlockLines(block) == [i \in 1..Len(block) |-> SpanTexts(block[i])]

\* len(block_text): every line and its line break
RECURSIVE BlockTextLen(_)
BlockTextLen(block) ==
  IF block = << >> THEN 0
  ELSE Len(SpanTexts(block[1])) + 1 + BlockTextLen(Tail(block))

\* page.get_text().splitlines(): the lines of all blocks of the page
RECURSIVE PageLines(_)
PageLines(page) ==
  IF page = << >> THEN << >>
  ELSE BlockLines(page[1]) \o PageLines(Tail(page))

\* "needle in page_text" for a needle without a line break
PageHas(page, needle) ==
  \E i \in 1..Len(PageLines(page)) : Contains(PageLines(page)[i], needle)

\* page_text.lower().count("team of")
RECURSIVE CountInLines(_, _)
CountInLines(lines, needle) ==
  IF lines = << >> THEN 0
  ELSE CountSub(Lower(lines[1]), needle) + CountInLines(Tail(lines), needle)

TeamOfPhrase == << "t", "e", "a", "m", " ", "o", "f" >>

team_cnt(page) == CountInLines(PageLines(page), TeamOfPhrase)

\* ------------------------------------------------------------------------
\* Per-document de-duplication
\* ------------------------------------------------------------------------

\* (value or "").lower().strip()
LowerStrip(v) == Strip(Lower(IF TruthyStr(v) THEN v ELSE << >>), SpaceChars)

\* the row deduplicate_companies keeps for a key after it met c again
DedupUpdate_KeepFirst(existing, c) == existing

DedupUpdate(existing, c) ==
  [ existing EXCEPT
      !.confidence = Max(@, c.confidence),
      !.team_size =
        IF TruthyInt(c.team_size)
          THEN (IF Max(OrZero(@), OrZero(c.team_size)) # 0
                  THEN Max(OrZero(@), OrZero(c.team_size))
                  ELSE @)
          ELSE @,
      !.flags = Sorted(SeqToSet(@) \cup SeqToSet(c.flags)) ]

\* the loop of deduplicate_companies: seen is the dict, as the list of its
\* values in insertion order
RECURSIVE DedupLoop(_, _)
DedupLoop(seen, companies) ==
  IF companies = << >> THEN seen
  ELSE LET c == companies[1]
           key == LowerStrip(c.company)
       IN  IF key = << >> THEN DedupLoop(seen, Tail(companies))
           ELSE IF \E i \in 1..Len(seen) : LowerStrip(seen[i].company) = key
             THEN LET i == CHOOSE i \in 1..Len(seen) :
                             LowerStrip(seen[i].company) = key
                  IN  DedupLoop([seen EXCEPT ![i] = DedupUpdate(@, c)],
                                Tail(companies))
             ELSE DedupLoop(Append(seen, c), Tail(companies))

\* deduplicate_companies(companies)
deduplicate_companies_KeepAll(companies) == companies

deduplicate_companies(companies) == DedupLoop(<< >>, companies)

\* the key of _dedupe_records
RecordKey(r) ==
  << LowerStrip(r.company), LowerStrip(r.contact_name),
     LowerStrip(r.contact_title), LowerStrip(r.role) >>

RECURSIVE DedupeRecordsLoop(_, _)
DedupeRecordsLoop(kept, rows) ==
  IF rows = << >> THEN kept
  ELSE IF \E i \in 1..Len(kept) : RecordKey(kept[i]) = RecordKey(rows[1])
    THEN DedupeRecordsLoop(kept, Tail(rows))
    ELSE DedupeRecordsLoop(Append(kept, rows[1]), Tail(rows))

\* _dedupe_records(rows)
dedupe_records_KeepAll(rows) == rows

dedupe_records(rows) == DedupeRecordsLoop(<< >>, rows)

\* ------------------------------------------------------------------------
\* The extractors, page by page
\* ------------------------------------------------------------------------

\* a row with the "source_page" entry of the layout-aware extractors
OnPage(r, n) ==
  [ company |-> r.company, source_pdf |-> r.source_pdf, role |-> r.role,
    contact_name |-> r.contact_name, contact_title |-> r.contact_title,
    team_size |-> r.team_size, confidence |-> r.confidence,
    flags |-> r.flags, source_page |-> n ]

\* thresholds of the attendee page signature
AttendeeMinTeamCount == 5
AttendeeMinBlocks == 40

\* the pages parse_attendee_list_pdf does not skip
AttendeeSignature_Both(page) ==
  team_cnt(page) >= AttendeeMinTeamCount /\ Len(page) >= AttendeeMinBlocks

AttendeeSignature(page) ==
  ~(team_cnt(page) < AttendeeMinTeamCount /\ Len(page) < AttendeeMinBlocks)

\* blocks with more text are skipped
MaxBlockTextLen == 200

\* bounds on the length of an extracted company
CompanyMinLen == 2
CompanyMaxLen == 80

AttendeeSkipWords ==
  { << "s", "p", "o", "n", "s", "o", "r", "s", "h", "i", "p" >>,
    << "s", "p", "e", "a", "k", "i", "n", "g" >>,
    << "e", "x", "h", "i", "b", "i", "t", "i", "o", "n" >>,
    << "n", "o", "w", " ", "o", "p", "e", "n" >> }

\* the rows one line of a block adds to the results (none or one)
AttendeeLineRows_ValidName(raw_line, pdf, n) ==
  LET line == Norm(raw_line)
      m == TeamOfMatch(line)
      company == clean_company_name(IF m.ok THEN m.company ELSE line)
  IN  IF line = << >> \/ is_header_footer(line) THEN << >>
      ELSE IF \E k \in AttendeeSkipWords : Contains(Lower(line), k) THEN << >>
      ELSE IF ~is_valid_company_name(company) THEN << >>
      ELSE IF m.ok
        THEN << OnPage(AttendeeRow(company, pdf, ParseInt(m.digits)), n) >>
        ELSE << OnPage(AttendeeLineRow(company, pdf), n) >>

AttendeeLineRows_NoBounds(raw_line, pdf, n) ==
  LET line == Norm(raw_line)
      m == TeamOfMatch(line)
      company == clean_company_name(IF m.ok THEN m.company ELSE line)
  IN  IF line = << >> \/ is_header_footer(line) THEN << >>
      ELSE IF \E k \in AttendeeSkipWords : Contains(Lower(line), k) THEN << >>
      ELSE IF m.ok
        THEN << OnPage(AttendeeRow(company, pdf, ParseInt(m.digits)), n) >>
        ELSE << OnPage(AttendeeLineRow(company, pdf), n) >>

AttendeeLineRows(raw_line, pdf, n) ==
  LET line == Norm(raw_line)
      m == TeamOfMatch(line)
      company == clean_company_name(IF m.ok THEN m.company ELSE line)
  IN  IF line = << >> \/ is_header_footer(line) THEN << >>
      ELSE IF \E k \in AttendeeSkipWords : Contains(Lower(line), k) THEN << >>
      ELSE IF NumericOrPercent(company) THEN << >>
      ELSE IF Len(company) < CompanyMinLen \/ Len(company) > CompanyMaxLen
        THEN << >>
      ELSE IF m.ok
        THEN << OnPage(AttendeeRow(company, pdf, ParseInt(m.digits)), n) >>
        ELSE << OnPage(AttendeeLineRow(company, pdf), n) >>

RECURSIVE AttendeeLinesRows(_, _, _)
AttendeeLinesRows(lines, pdf, n) ==
  IF lines = << >> THEN << >>
  ELSE AttendeeLineRows(lines[1], pdf, n)
         \o AttendeeLinesRows(Tail(lines), pdf, n)

\* the rows the blocks of one page add to the results
RECURSIVE AttendeeBlocksRows(_, _, _)
AttendeeBlocksRows(blocks, pdf, n) ==
  IF blocks = << >> THEN << >>
  ELSE (IF BlockTextLen(blocks[1]) > MaxBlockTextLen THEN << >>
        ELSE AttendeeLinesRows(BlockLines(blocks[1]), pdf, n))
         \o AttendeeBlocksRows(Tail(blocks), pdf, n)

\* str.upper() on one character
UpperChar(ch) ==
  IF \E i \in 1..26 : LowerLetters[i] = ch
    THEN UpperLetters[CHOOSE i \in 1..26 : LowerLetters[i] = ch]
    ELSE ch

\* str.upper()
Upper(s) == [i \in 1..Len(s) |-> UpperChar(s[i])]

NewTag == << "N", "E", "W" >>

LineupMarkers ==
  { << "S", "P", "E", "A", "K", "E", "R", " ", "L", "I", "N", "E", "U", "P" >>,
    << "V", "O", "I", "C", "E", "S", " ", "O", "F", " ", "T", "H", "E", " ", "N", "E", "X", "T", " ", "E", "R", "A" >> }

\* the pages parse_agenda_speaker_lineup_pdf does not skip
LineupSignature(page) == \E k \in LineupMarkers : PageHas(page, k)

\* line_items: (text, dominant font) of the lines of a block with text
LineItems(block) ==
  LET items == [i \in 1..Len(block) |->
                  [t |-> LineText(block[i]), font |-> DominantFont(block[i])]]
  IN  SelectSeq(items, LAMBDA it : it.t # << >>)

\* fewest lines of a speaker card
CardMinLines == 3

CardSkipWords ==
  { << "f", "i", "e", "l", "d", "s", "e", "r", "v", "i", "c", "e", "u", "s", "a", ".", "w", "b", "r", "e", "s", "e", "a", "r", "c", "h", ".", "c", "o", "m" >>,
    << "r", "e", "g", "i", "s", "t", "e", "r", " ", "n", "o", "w" >>,
    << "j", "u", "m", "p", " ", "t", "o" >>,
    << "a", "b", "o", "u", "t" >> }

RECURSIVE ItemTexts(_)
ItemTexts(items) ==
  IF items = << >> THEN << >> ELSE << items[1].t >> \o ItemTexts(Tail(items))

\* the backward scan "while j >= 1" over the card; positions count from 1
\* here, so the name line is position 1 and the scan ends below position 2
RECURSIVE CompanyScan_StopAtNew(_, _, _)
CompanyScan_StopAtNew(items, j, parts) ==
  IF j < 2 THEN [company_parts |-> parts, j |-> j]
  ELSE IF is_company_font(items[j].font) /\ Upper(items[j].t) # NewTag
    THEN CompanyScan_StopAtNew(items, j - 1,
                               << StripNewTag(items[j].t) >> \o parts)
  ELSE [company_parts |-> parts, j |-> j]

RECURSIVE CompanyScan(_, _, _)
CompanyScan(items, j, parts) ==
  IF j < 2 THEN [company_parts |-> parts, j |-> j]
  ELSE IF Upper(items[j].t) = NewTag THEN CompanyScan(items, j - 1, parts)
  ELSE IF is_company_font(items[j].font)
    THEN CompanyScan(items, j - 1, << StripNewTag(items[j].t) >> \o parts)
  ELSE [company_parts |-> parts, j |-> j]

\* the scan and "if not company_parts": the last line is the company
CardCompany(items) ==
  LET s == CompanyScan(items, Len(items), << >>)
  IN  IF s.company_parts = << >>
        THEN [company_parts |-> << StripNewTag(items[Len(items)].t) >>,
              j |-> Len(items) - 1]
        ELSE s

\* title_parts and title for the scan position j
CardTitle_KeepNew(items, j) ==
  IF SubSeq(items, 2, j) = << >> THEN None
  ELSE Norm(Join(<< " " >>, ItemTexts(SubSeq(items, 2, j))))

CardTitle(items, j) ==
  LET title_parts == SelectSeq(ItemTexts(SubSeq(items, 2, j)),
                               LAMBDA t : Upper(t) # NewTag)
  IN  IF title_parts = << >> THEN None
      ELSE Norm(Join(<< " " >>, title_parts))

\* the rows one block of a lineup page adds to the results (none or one)
CardRows(block, pdf, n) ==
  LET items == LineItems(block)
      combined == Lower(Join(<< " " >>, ItemTexts(items)))
      name == items[1].t
      c == CardCompany(items)
  IN  IF Len(items) < CardMinLines THEN << >>
      ELSE IF \E k \in CardSkipWords : Contains(combined, k) THEN << >>
      ELSE IF ~is_person_name(name) THEN << >>
      ELSE << OnPage(SpeakerCardRow(
                       clean_company_name(Join(<< " " >>, c.company_parts)),
                       pdf, Norm(name), CardTitle(items, c.j)), n) >>

RECURSIVE LineupBlocksRows(_, _, _)
LineupBlocksRows(blocks, pdf, n) ==
  IF blocks = << >> THEN << >>
  ELSE CardRows(blocks[1], pdf, n) \o LineupBlocksRows(Tail(blocks), pdf, n)

ScheduleMarkers ==
  { << "A", "G", "E", "N", "D", "A" >>,
    << "D", "a", "y" >>,
    << " ", "A", "M" >>,
    << " ", "P", "M" >> }

\* the pages parse_agenda_schedule_lines does not skip
ScheduleSignature(page) == \E k \in ScheduleMarkers : PageHas(page, k)

\* fewest commas of a schedule line
ScheduleMinCommas == 2

\* the rows one line of a schedule page adds to the results (none or one)
ScheduleLineRows_AnyName(raw, pdf, n) ==
  LET line == Norm(raw)
      commas == { i \in 1..Len(line) : line[i] = "," }
      first == CHOOSE i \in commas : \A k \in commas : i <= k
      last == CHOOSE i \in commas : \A k \in commas : k <= i
      name == Norm(SubSeq(line, 1, first - 1))
      company == clean_company_name(SubSeq(line, last + 1, Len(line)))
      title == Norm(SubSeq(line, first + 1, last - 1))
  IN  IF line = << >> \/ is_header_footer(line) THEN << >>
      ELSE IF Cardinality(commas) < ScheduleMinCommas THEN << >>
      ELSE IF Len(company) < CompanyMinLen \/ Len(company) > CompanyMaxLen
        THEN << >>
      ELSE << OnPage(ScheduleRow(company, pdf, name,
                                 IF title = << >> THEN None ELSE title), n) >>

ScheduleLineRows_SecondComma(raw, pdf, n) ==
  LET line == Norm(raw)
      commas == { i \in 1..Len(line) : line[i] = "," }
      first == CHOOSE i \in commas : \A k \in commas : i <= k
      last == CHOOSE i \in commas \ {first} : \A k \in commas \ {first} : i <= k
      name == Norm(SubSeq(line, 1, first - 1))
      company == clean_company_name(SubSeq(line, last + 1, Len(line)))
      title == Norm(SubSeq(line, first + 1, last - 1))
  IN  IF line = << >> \/ is_header_footer(line) THEN << >>
      ELSE IF Cardinality(commas) < ScheduleMinCommas THEN << >>
      ELSE IF ~is_person_name(name) THEN << >>
      ELSE IF Len(company) < CompanyMinLen \/ Len(company) > CompanyMaxLen
        THEN << >>
      ELSE << OnPage(ScheduleRow(company, pdf, name,
                                 IF title = << >> THEN None ELSE title), n) >>

ScheduleLineRows(raw, pdf, n) ==
  LET line == Norm(raw)
      commas == { i \in 1..Len(line) : line[i] = "," }
      first == CHOOSE i \in commas : \A k \in commas : i <= k
      last == CHOOSE i \in commas : \A k \in commas : k <= i
      name == Norm(SubSeq(line, 1, first - 1))
      company == clean_company_name(SubSeq(line, last + 1, Len(line)))
      title == Norm(SubSeq(line, first + 1, last - 1))
  IN  IF line = << >> \/ is_header_footer(line) THEN << >>
      ELSE IF Cardinality(commas) < ScheduleMinCommas THEN << >>
      ELSE IF ~is_person_name(name) THEN << >>
      ELSE IF Len(company) < CompanyMinLen \/ Len(company) > CompanyMaxLen
        THEN << >>
      ELSE << OnPage(ScheduleRow(company, pdf, name,
                                 IF title = << >> THEN None ELSE title), n) >>

RECURSIVE ScheduleLinesRows(_, _, _)
ScheduleLinesRows(lines, pdf, n) ==
  IF lines = << >> THEN << >>
  ELSE ScheduleLineRows(lines[1], pdf, n)
         \o ScheduleLinesRows(Tail(lines), pdf, n)

\* the rows one line of the document text adds to the fallback results
FallbackLineRows(raw, pdf) ==
  LET ln == Strip(raw, SpaceChars)
      m == TeamOfMatch(ln)
  IN  IF ln = << >> \/ is_header_footer(ln) \/ ~m.ok THEN << >>
      ELSE << FallbackRow(clean_company_name(m.company), pdf,
                          ParseInt(m.digits)) >>

RECURSIVE FallbackLinesRows(_, _)
FallbackLinesRows(lines, pdf) ==
  IF lines = << >> THEN << >>
  ELSE FallbackLineRows(lines[1], pdf) \o FallbackLinesRows(Tail(lines), pdf)

\* extract_text_from_pdf(pdf_path).splitlines(): the lines of all pages
RECURSIVE DocLines(_)
DocLines(pages) ==
  IF pages = << >> THEN << >>
  ELSE PageLines(pages[1]) \o DocLines(Tail(pages))

\* ------------------------------------------------------------------------
\* parse_conference_pdf: the dispatcher and the page loops
\* ------------------------------------------------------------------------

\* the branch parse_conference_pdf takes for a file name
ParserFor_NoSpeaker(filename) ==
  IF Contains(Lower(filename), << "a", "t", "t", "e", "n", "d", "e", "e" >>) THEN "attendee"
  ELSE IF Contains(Lower(filename), << "a", "g", "e", "n", "d", "a" >>) THEN "lineup"
  ELSE "fallback"

ParserFor_NoAgenda(filename) ==
  IF Contains(Lower(filename), << "a", "t", "t", "e", "n", "d", "e", "e" >>) THEN "attendee"
  ELSE IF Contains(Lower(filename), << "s", "p", "e", "a", "k", "e", "r" >>) THEN "lineup"
  ELSE "fallback"

ParserFor(filename) ==
  IF Contains(Lower(filename), << "a", "t", "t", "e", "n", "d", "e", "e" >>) THEN "attendee"
  ELSE IF \/ Contains(Lower(filename), << "a", "g", "e", "n", "d", "a" >>)
          \/ Contains(Lower(filename), << "s", "p", "e", "a", "k", "e", "r" >>)
    THEN "lineup"
  ELSE "fallback"

\* a line of one span
Ln(text, font) == << Span(text, font) >>

\* a block that holds only white space
BlankBlock == << Ln(<< " " >>, FontLight) >>

\* blocks followed by blank blocks up to n blocks
Pad(blocks, n) == blocks \o [i \in 1..(n - Len(blocks)) |-> BlankBlock]

\* a company name of 85 letters
LongName == [i \in 1..85 |-> IF i = 1 THEN "A" ELSE "a"]

\* five lines with a team size, in one block
TeamBlock ==
  << Ln(<< "A", "c", "m", "e", " ", "R", "o", "b", "o", "t", "i", "c", "s", " ", "(", "T", "e", "a", "m", " ", "o", "f", " ", "4", ")" >>, FontLight),
     Ln(<< "A", "c", "m", "e", " ", "(", "T", "e", "a", "m", " ", "o", "f", " ", "0", ")" >>, FontLight),
     Ln(<< "7", " ", "(", "T", "e", "a", "m", " ", "o", "f", " ", "3", ")" >>, FontLight),
     Ln(<< "A", " ", "(", "T", "e", "a", "m", " ", "o", "f", " ", "3", ")" >>, FontLight),
     Ln(<< "a", "c", "m", "e", " ", "r", "o", "b", "o", "t", "i", "c", "s", " ", "(", "t", "e", "a", "m", " ", "o", "f", " ", "2", ")" >>, FontLight) >>

\* lines without a team size, one block each
ListBlocks ==
  << << Ln(<< "A", "c", "m", "e", ",", " ", "I", "n", "c", "." >>, FontLight) >>,
     << Ln(<< "a", "c", "m", "e", " ", "r", "o", "b", "o", "t", "i", "c", "s" >>, FontLight) >>,
     << Ln(<< "4", "2", "%" >>, FontLight) >>,
     << Ln(<< "S", "p", "e", "a", "k", "i", "n", "g", " ", "F", "a", "c", "u", "l", "t", "y" >>, FontLight) >>,
     << Ln(<< "C", "o", "g", " ", "(", "T", "e", "a", "m", " ", "o", "f", " ", "2", ")" >>, FontLight) >>,
     << Ln(LongName, FontLight) >> >>

\* two lines with a team size
SmallBlock ==
  << Ln(<< "A", "c", "m", "e", " ", "R", "o", "b", "o", "t", "i", "c", "s", " ", "(", "T", "e", "a", "m", " ", "o", "f", " ", "4", ")" >>, FontLight),
     Ln(<< "C", "o", "g", " ", "(", "T", "e", "a", "m", " ", "o", "f", " ", "2", ")" >>, FontLight) >>

LineupHeader == << Ln(<< "2", "0", "2", "5", " ", "S", "P", "E", "A", "K", "E", "R", " ", "L", "I", "N", "E", "U", "P" >>, FontBold) >>

CardJane ==
  << Ln(<< "J", "a", "n", "e", " ", "D", "o", "e" >>, FontMedium),
     Ln(<< "V", "P", " ", "o", "f", " ", "S", "u", "p", "p", "o", "r", "t" >>, FontLight),
     Ln(<< "A", "c", "m", "e", " ", "R", "o", "b", "o", "t", "i", "c", "s" >>, FontBold) >>

CardBob ==
  << Ln(<< "B", "o", "b", " ", "R", "o", "e" >>, FontMedium),
     Ln(<< "C", "E", "O" >>, FontLight),
     Ln(<< "A", "c", "m", "e", " ", "R", "o", "b", "o", "t", "i", "c", "s" >>, FontBold) >>

ScheduleBlock ==
  << Ln(<< "A", "G", "E", "N", "D", "A", " ", "D", "a", "y", " ", "1" >>, FontBold),
     Ln(<< "J", "a", "n", "e", " ", "D", "o", "e", ",", " ", "V", "P", " ", "o", "f", " ", "S", "u", "p", "p", "o", "r", "t", ",", " ", "A", "c", "m", "e", " ", "R", "o", "b", "o", "t", "i", "c", "s" >>, FontLight),
     Ln(<< "A", "l", " ", "P", "o", "e", ",", " ", "C", "T", "O", ",", " ", "C", "o", "g" >>, FontLight),
     Ln(<< "D", "a", "y", " ", "1", ",", " ", "K", "e", "y", "n", "o", "t", "e", ",", " ", "A", "c", "m", "e", " ", "R", "o", "b", "o", "t", "i", "c", "s" >>, FontLight),
     Ln(<< "B", "o", "b", " ", "R", "o", "e", ",", " ", "V", "P", ",", " ", "S", "a", "l", "e", "s", ",", " ", "A", "c", "m", "e", " ", "R", "o", "b", "o", "t", "i", "c", "s", " ", "N", "E", "W" >>, FontLight),
     Ln(<< "A", "l", " ", "P", "o", "e", ",", " ", "C", "T", "O", ",", " ", "A" >>, FontLight) >>

\* a block of three lines whose first line is not a person name
CardKeynote ==
  << Ln(<< "K", "e", "y", "n", "o", "t", "e", " ", "S", "p", "e", "a", "k", "e", "r" >>, FontMedium),
     Ln(<< "O", "p", "e", "n", "i", "n", "g" >>, FontLight),
     Ln(<< "A", "c", "m", "e", " ", "R", "o", "b", "o", "t", "i", "c", "s" >>, FontBold) >>

\* >= 5 "team of", < 40 blocks, no marker
PageTeams == << TeamBlock >>

\* < 5 "team of", >= 40 blocks, no marker
PageList == Pad(ListBlocks, AttendeeMinBlocks)

\* both thresholds met
PageRoster == Pad(<< TeamBlock >>, AttendeeMinBlocks)

\* 2 "team of", 10 blocks, no marker
PageSmall == Pad(<< SmallBlock >>, 10)

\* a speaker-lineup page that also carries a team size line
PageLineup ==
  << LineupHeader, CardJane, CardKeynote, CardBob, << Ln(<< "C", "o", "g", " ", "(", "T", "e", "a", "m", " ", "o", "f", " ", "3", ")" >>, FontLight) >> >>

\* a schedule page
PageSchedule == << ScheduleBlock >>

\* a page with the signature of all three layout-aware extractors
PageMulti == << LineupHeader, CardJane, ScheduleBlock, TeamBlock >>

PagePool ==
  { PageTeams, PageList, PageRoster, PageSmall, PageLineup, PageSchedule,
    PageMulti }

\* most pages of a document
MaxPages == 2

Docs ==
  { [filename |-> f, pages |-> p] :
      f \in { AttendeePdf, AgendaPdf, SpeakerPdf, OtherPdf },
      p \in UNION { [1..n -> PagePool] : n \in 0..MaxPages } }

ThePage == doc.pages[page_index + 1]

InitParse ==
  /\ MergeIdle
  /\ BatchIdle
  /\ CardIdle
  /\ ExtIdle
  /\ doc \in Docs
  /\ ppc = "dispatch"
  /\ page_index = 0
  /\ results = << >>
  /\ lineup_rows = << >>
  /\ parsed = << >>
  /\ scanned = {}

\* parse_conference_pdf picks the extractors by the file name
Dispatch ==
  /\ ppc = "dispatch"
  /\ ppc' = ParserFor(doc.filename)
  /\ UNCHANGED << doc, page_index, results, lineup_rows, parsed, scanned >>
  /\ UNCHANGED << merge_vars, batch_vars, card_vars, ext_vars >>

\* parse_attendee_list_pdf: "if team_cnt < 5 and len(blocks) < 40: continue"
AttendeePageSkip ==
  /\ ppc = "attendee"
  /\ page_index < Len(doc.pages)
  /\ ~AttendeeSignature(ThePage)
  /\ page_index' = page_index + 1
  /\ UNCHANGED << doc, ppc, results, lineup_rows, parsed, scanned >>
  /\ UNCHANGED << merge_vars, batch_vars, card_vars, ext_vars >>

\* parse_attendee_list_pdf: the blocks of one page
AttendeePage ==
  /\ ppc = "attendee"
  /\ page_index < Len(doc.pages)
  /\ AttendeeSignature(ThePage)
  /\ results' = results
                  \o AttendeeBlocksRows(ThePage, doc.filename, page_index + 1)
  /\ scanned' = scanned \cup { << "attendee", page_index + 1 >> }
  /\ page_index' = page_index + 1
  /\ UNCHANGED << doc, ppc, lineup_rows, parsed >>
  /\ UNCHANGED << merge_vars, batch_vars, card_vars, ext_vars >>

\* parse_attendee_list_pdf: "return deduplicate_companies(results)"
AttendeeReturn ==
  /\ ppc = "attendee"
  /\ page_index = Len(doc.pages)
  /\ parsed' = deduplicate_companies(results)
  /\ ppc' = "done"
  /\ UNCHANGED << doc, page_index, results, lineup_rows, scanned >>
  /\ UNCHANGED << merge_vars, batch_vars, card_vars, ext_vars >>

\* parse_agenda_speaker_lineup_pdf: a page without a lineup marker
LineupPageSkip ==
  /\ ppc = "lineup"
  /\ page_index < Len(doc.pages)
  /\ ~LineupSignature(ThePage)
  /\ page_index' = page_index + 1
  /\ UNCHANGED << doc, ppc, results, lineup_rows, parsed, scanned >>
  /\ UNCHANGED << merge_vars, batch_vars, card_vars, ext_vars >>

\* parse_agenda_speaker_lineup_pdf: the blocks of one page
LineupPage ==
  /\ ppc = "lineup"
  /\ page_index < Len(doc.pages)
  /\ LineupSignature(ThePage)
  /\ results' = results
                  \o LineupBlocksRows(ThePage, doc.filename, page_index + 1)
  /\ scanned' = scanned \cup { << "lineup", page_index + 1 >> }
  /\ page_index' = page_index + 1
  /\ UNCHANGED << doc, ppc, lineup_rows, parsed >>
  /\ UNCHANGED << merge_vars, batch_vars, card_vars, ext_vars >>

\* parse_agenda_speaker_lineup_pdf returns; parse_agenda_schedule_lines
\* starts on the first page with its own results list
LineupReturn ==
  /\ ppc = "lineup"
  /\ page_index = Len(doc.pages)
  /\ lineup_rows' = dedupe_records(results)
  /\ results' = << >>
  /\ page_index' = 0
  /\ ppc' = "schedule"
  /\ UNCHANGED << doc, parsed, scanned >>
  /\ UNCHANGED << merge_vars, batch_vars, card_vars, ext_vars >>

\* parse_agenda_schedule_lines: a page without a schedule marker
SchedulePageSkip ==
  /\ ppc = "schedule"
  /\ page_index < Len(doc.pages)
  /\ ~ScheduleSignature(ThePage)
  /\ page_index' = page_index + 1
  /\ UNCHANGED << doc, ppc, results, lineup_rows, parsed, scanned >>
  /\ UNCHANGED << merge_vars, batch_vars, card_vars, ext_vars >>

\* parse_agenda_schedule_lines: the lines of one page
SchedulePage ==
  /\ ppc = "schedule"
  /\ page_index < Len(doc.pages)
  /\ ScheduleSignature(ThePage)
  /\ results' = results
                  \o ScheduleLinesRows(PageLines(ThePage), doc.filename,
                                       page_index + 1)
  /\ scanned' = scanned \cup { << "schedule", page_index + 1 >> }
  /\ page_index' = page_index + 1
  /\ UNCHANGED << doc, ppc, lineup_rows, parsed >>
  /\ UNCHANGED << merge_vars, batch_vars, card_vars, ext_vars >>

\* parse_agenda_schedule_lines returns and parse_conference_pdf returns
\* "_dedupe_records(results)" of both extractors' rows
AgendaReturn ==
  /\ ppc = "schedule"
  /\ page_index = Len(doc.pages)
  /\ parsed' = dedupe_records(lineup_rows \o dedupe_records(results))
  /\ ppc' = "done"
  /\ UNCHANGED << doc, page_index, results, lineup_rows, scanned >>
  /\ UNCHANGED << merge_vars, batch_vars, card_vars, ext_vars >>

\* parse_text_fallback: the lines of the text of all pages
FallbackParse ==
  /\ ppc = "fallback"
  /\ results' = FallbackLinesRows(DocLines(doc.pages), doc.filename)
  /\ parsed' = deduplicate_companies(results')
  /\ scanned' = { << "fallback", n >> : n \in 1..Len(doc.pages) }
  /\ page_index' = Len(doc.pages)
  /\ ppc' = "done"
  /\ UNCHANGED << doc, lineup_rows >>
  /\ UNCHANGED << merge_vars, batch_vars, card_vars, ext_vars >>

NextParse ==
  \/ Dispatch
  \/ AttendeePageSkip \/ AttendeePage \/ AttendeeReturn
  \/ LineupPageSkip \/ LineupPage \/ LineupReturn
  \/ SchedulePageSkip \/ SchedulePage \/ AgendaReturn
  \/ FallbackParse

SpecParse == InitParse /\ [][NextParse]_vars

\* ------------------------------------------------------------------------
\* Vocabulary of the properties of parse_conference_pdf
\* ------------------------------------------------------------------------

\* the attendee-list extractor is running or has returned
RunsAttendee ==
  ParserFor(doc.filename) = "attendee" /\ ppc \in {"attendee", "done"}

\* the agenda extractors are running or have returned
RunsAgenda ==
  ParserFor(doc.filename) = "lineup" /\ ppc \in {"lineup", "schedule", "done"}

\* the fallback extractor has returned
RanFallback == ParserFor(doc.filename) = "fallback" /\ ppc = "done"

\* the rows of a list that come from page n
RowsOfPage(rows, n) == { i \in 1..Len(rows) : rows[i].source_page = n }

MeetsTeamCount(page) == team_cnt(page) >= AttendeeMinTeamCount

MeetsBlockCount(page) == Len(page) >= AttendeeMinBlocks

\* C13 (as stated): a page is processed by the attendee-list extractor,
\* and yields attendee rows, only if its "team of" count is at least 5 and
\* its block count is at least 40.
C13_BothThresholds ==
  RunsAttendee =>
    \A n \in 1..Len(doc.pages) :
      (<< "attendee", n >> \in scanned \/ RowsOfPage(results, n) # {}) =>
        (MeetsTeamCount(doc.pages[n]) /\ MeetsBlockCount(doc.pages[n]))

\* C13 (amended): of the pages the page loop of the attendee-list
\* extractor has passed, exactly those whose "team of" count is at least 5
\* or whose block count is at least 40 are processed; every row comes
\* from such a page, so a page below both thresholds (2 occurrences, 10
\* blocks) yields none.
C13_EitherThreshold ==
  RunsAttendee =>
    /\ \A n \in 1..Len(doc.pages) :
         << "attendee", n >> \in scanned <=>
           /\ n <= page_index
           /\ (MeetsTeamCount(doc.pages[n]) \/ MeetsBlockCount(doc.pages[n]))
    /\ \A i \in 1..Len(results) :
         << "attendee", results[i].source_page >> \in scanned
    /\ \A n \in 1..Len(doc.pages) :
         doc.pages[n] = PageSmall => RowsOfPage(results, n) = {}

\* a page that meets only the "team of" threshold and a page that meets
\* only the block threshold have both given rows, next to a page below
\* both that gave none
C13_Witness ==
  /\ RunsAttendee
  /\ ppc = "done"
  /\ \E n \in 1..Len(doc.pages) :
       /\ MeetsTeamCount(doc.pages[n]) /\ ~MeetsBlockCount(doc.pages[n])
       /\ RowsOfPage(results, n) # {}
  /\ \E n \in 1..Len(doc.pages) :
       /\ ~MeetsTeamCount(doc.pages[n]) /\ MeetsBlockCount(doc.pages[n])
       /\ RowsOfPage(results, n) # {}

\* the page has the signature an extractor looks for; the fallback
\* extractor looks for none
Matches(e, page) ==
  CASE e = "attendee" -> MeetsTeamCount(page) \/ MeetsBlockCount(page)
    [] e = "lineup" -> \E k \in LineupMarkers : PageHas(page, k)
    [] e = "schedule" -> \E k \in ScheduleMarkers : PageHas(page, k)
    [] e = "fallback" -> TRUE

LayoutExtractors == {"attendee", "lineup", "schedule"}

NameHas(w) == Contains(Lower(doc.filename), w)

\* the extractors a file name selects
SelectedExtractors ==
  IF NameHas(<< "a", "t", "t", "e", "n", "d", "e", "e" >>) THEN {"attendee"}
  ELSE IF NameHas(<< "a", "g", "e", "n", "d", "a" >>) \/ NameHas(<< "s", "p", "e", "a", "k", "e", "r" >>)
    THEN {"lineup", "schedule"}
  ELSE {"fallback"}

\* C14 (as stated): a page that matches more than one archetype is
\* processed by every extractor it matches, whatever the file name.
C14_AllMatchingRun ==
  ppc = "done" =>
    \A n \in 1..Len(doc.pages) :
      Cardinality({ e \in LayoutExtractors : Matches(e, doc.pages[n]) }) > 1 =>
        \A e \in LayoutExtractors :
          Matches(e, doc.pages[n]) => << e, n >> \in scanned

\* C14 (amended): the file name selects the extractors; a page is
\* processed by exactly the selected extractors whose signature it has,
\* and in an agenda or speaker document every row of the speaker-lineup
\* and of the schedule-line extractor is in the output up to the key
\* (company, contact_name, contact_title, role).
C14_ExtractorsByFileName ==
  ppc = "done" =>
    /\ scanned = { << e, n >> \in SelectedExtractors \X (1..Len(doc.pages)) :
                     Matches(e, doc.pages[n]) }
    /\ SelectedExtractors = {"lineup", "schedule"} =>
         \A r \in SeqToSet(lineup_rows) \cup SeqToSet(results) :
           \E i \in 1..Len(parsed) : RecordKey(parsed[i]) = RecordKey(r)

\* a "speaker" document whose page has all three signatures: the lineup
\* and the schedule extractor both processed it and both have a row in
\* the output, the attendee-list extractor did not run
C14_Witness ==
  /\ ppc = "done"
  /\ doc.filename = SpeakerPdf
  /\ \E n \in 1..Len(doc.pages) :
       /\ \A e \in LayoutExtractors : Matches(e, doc.pages[n])
       /\ << "lineup", n >> \in scanned
       /\ << "schedule", n >> \in scanned
       /\ << "attendee", n >> \notin scanned
       /\ \E i, j \in 1..Len(parsed) :
            /\ parsed[i].source_page = n /\ parsed[i].flags = << >>
            /\ parsed[j].source_page = n
            /\ parsed[j].flags = << FlagScheduleLine >>

\* C15 (as stated): the fallback extractor reads a page if and only if
\* the page has the signature of none of the three layout-aware
\* extractors.
C15_FallbackIffUnclassified ==
  ppc = "done" =>
    \A n \in 1..Len(doc.pages) :
      << "fallback", n >> \in scanned <=>
        \A e \in LayoutExtractors : ~Matches(e, doc.pages[n])

\* the line is "<company> (Team of <digits>)" and not page chrome
IsTeamSizeLine(raw) ==
  /\ ~is_header_footer(Strip(raw, SpaceChars))
  /\ TeamOfMatch(Strip(raw, SpaceChars)).ok

\* C15 (amended): the fallback extractor reads every page of a document
\* whose file name holds none of "attendee", "agenda", "speaker", and no
\* page of any other document, whatever signatures the pages have; in
\* such a document every team size line of every page gives a row, and
\* no other document has a row flagged "fallback_team_size".
C15_FallbackByFileName ==
  ppc = "done" =>
    /\ \A n \in 1..Len(doc.pages) :
         << "fallback", n >> \in scanned <=>
           ~(NameHas(<< "a", "t", "t", "e", "n", "d", "e", "e" >>) \/ NameHas(<< "a", "g", "e", "n", "d", "a" >>)
               \/ NameHas(<< "s", "p", "e", "a", "k", "e", "r" >>))
    /\ SelectedExtractors = {"fallback"} =>
         \A n \in 1..Len(doc.pages) :
           \A raw \in SeqToSet(PageLines(doc.pages[n])) :
             IsTeamSizeLine(raw) =>
               \E i \in 1..Len(results) :
                 /\ results[i].company
                      = clean_company_name(
                          TeamOfMatch(Strip(raw, SpaceChars)).company)
                 /\ results[i].confidence = ConfFallback
    /\ SelectedExtractors # {"fallback"} =>
         \A i \in 1..Len(parsed) : parsed[i].flags # << FlagFallback >>

\* a document named x.pdf whose only page is a speaker-lineup page: the
\* fallback extractor read it and returned the row of its team size line
C15_Witness ==
  /\ ppc = "done"
  /\ doc.filename = OtherPdf
  /\ doc.pages = << PageLineup >>
  /\ Matches("lineup", doc.pages[1])
  /\ << "fallback", 1 >> \in scanned
  /\ \E i \in 1..Len(parsed) :
       /\ parsed[i].company = << "C", "o", "g" >>
       /\ parsed[i].team_size = 3
       /\ parsed[i].flags = << FlagFallback >>

\* the text "<company> (Team of <k>)" for a one-digit k
TeamOfText(company, k) ==
  company \o << " ", "(", "T", "e", "a", "m", " ", "o", "f", " " >> \o << Digits[k + 1] >> \o << ")" >>

\* company texts the lines are compared with
CandidateCompanies ==
  { << "A", "c", "m", "e", " ", "R", "o", "b", "o", "t", "i", "c", "s" >>,
    << "a", "c", "m", "e", " ", "r", "o", "b", "o", "t", "i", "c", "s" >>,
    << "A", "c", "m", "e" >>,
    << "C", "o", "g" >>,
    << "7" >>,
    << "A" >> }

\* the line passes the line filters of the attendee-list extractor
AdmittedLine(raw) ==
  /\ Norm(raw) # << >>
  /\ ~is_header_footer(Norm(raw))
  /\ \A w \in AttendeeSkipWords : ~Contains(Lower(Norm(raw)), w)

\* the lines the attendee-list extractor reads on page n
ReadLines(n) ==
  UNION { SeqToSet(BlockLines(doc.pages[n][b])) :
            b \in { b \in 1..Len(doc.pages[n]) :
                      BlockTextLen(doc.pages[n][b]) <= MaxBlockTextLen } }

\* the filter on the cleaned company of parse_attendee_list_pdf
CompanyAccepted(company) ==
  /\ ~NumericOrPercent(company)
  /\ Len(company) >= CompanyMinLen
  /\ Len(company) <= CompanyMaxLen

\* the row the extractor emits for "<company> (Team of <k>)" on page n
TeamSizeRow(company, k, n) ==
  [ company |-> clean_company_name(company), source_pdf |-> doc.filename,
    role |-> RoleAttendee, contact_name |-> None, contact_title |-> None,
    team_size |-> k, confidence |-> 95, flags |-> << >>, source_page |-> n ]

\* C16 (as stated): every admitted line "<Company> (Team of <N>)" of a
\* processed attendee page gives a row with the cleaned company, role
\* attendee, team size N and confidence 0.95.
C16_EveryPatternLineEmits ==
  RunsAttendee =>
    \A n \in 1..Len(doc.pages) :
      << "attendee", n >> \in scanned =>
        \A c \in CandidateCompanies, k \in 0..9 :
          (TeamOfText(c, k) \in ReadLines(n) /\ AdmittedLine(TeamOfText(c, k)))
            => \E i \in 1..Len(results) : results[i] = TeamSizeRow(c, k, n)

\* C16 (amended): such a line gives that row exactly when the cleaned
\* company is not a bare number or percentage and has 2 to 80 characters;
\* "Acme Robotics (Team of 4)" gives company "Acme Robotics", team size 4,
\* confidence 0.95.
C16_PatternLineEmitsIfAccepted ==
  RunsAttendee =>
    \A n \in 1..Len(doc.pages) :
      << "attendee", n >> \in scanned =>
        \A c \in CandidateCompanies, k \in 0..9 :
          (TeamOfText(c, k) \in ReadLines(n) /\ AdmittedLine(TeamOfText(c, k)))
            => ((\E i \in 1..Len(results) : results[i] = TeamSizeRow(c, k, n))
                  <=> CompanyAccepted(clean_company_name(c)))

\* a processed page holds "Acme Robotics (Team of 4)", which gave its
\* row, and "7 (Team of 3)" and "A (Team of 3)", which gave none
C16_Witness ==
  /\ RunsAttendee
  /\ \E n \in 1..Len(doc.pages) :
       /\ << "attendee", n >> \in scanned
       /\ { TeamOfText(<< "A", "c", "m", "e", " ", "R", "o", "b", "o", "t", "i", "c", "s" >>, 4), TeamOfText(<< "7" >>, 3),
            TeamOfText(<< "A" >>, 3) } \subseteq ReadLines(n)
       /\ \E i \in 1..Len(results) :
            /\ results[i].source_page = n
            /\ results[i].company = << "A", "c", "m", "e", " ", "R", "o", "b", "o", "t", "i", "c", "s" >>
            /\ results[i].team_size = 4
            /\ results[i].confidence = ConfTeamOf
            /\ results[i].role = RoleAttendee
       /\ \A i \in 1..Len(results) :
            results[i].source_page = n =>
              results[i].company \notin { << "7" >>, << "A" >> }

\* the row the extractor emits for a line without a team size on page n
DefaultRow(raw, n) ==
  [ company |-> clean_company_name(Norm(raw)), source_pdf |-> doc.filename,
    role |-> RoleAttendee, contact_name |-> None, contact_title |-> None,
    team_size |-> 1, confidence |-> 90, flags |-> << >>, source_page |-> n ]

\* the admitted lines of page n that do not match the team size pattern
PlainLines(n) ==
  { raw \in ReadLines(n) : AdmittedLine(raw) /\ ~TeamOfMatch(Norm(raw)).ok }

\* C17 (as stated): an admitted line without the pattern gives a row
\* with role attendee, team size 1 and confidence 0.90 exactly when it
\* passes is_valid_company_name (cleaned length 2 to 90, not a number).
C17_DefaultRowIffValidName ==
  RunsAttendee =>
    \A n \in 1..Len(doc.pages) :
      << "attendee", n >> \in scanned =>
        \A raw \in PlainLines(n) :
          (\E i \in 1..Len(results) : results[i] = DefaultRow(raw, n))
            <=> is_valid_company_name(Norm(raw))

\* C17 (amended): it gives that row exactly when the cleaned line is not
\* a bare number or percentage and has 2 to 80 characters; the extractor
\* does not use is_valid_company_name, and a cleaned line of 81 to 90
\* characters passes is_valid_company_name but gives no row.
C17_DefaultRowIffAccepted ==
  RunsAttendee =>
    \A n \in 1..Len(doc.pages) :
      << "attendee", n >> \in scanned =>
        \A raw \in PlainLines(n) :
          /\ (\E i \in 1..Len(results) : results[i] = DefaultRow(raw, n))
               <=> CompanyAccepted(clean_company_name(Norm(raw)))
          /\ (Len(clean_company_name(Norm(raw))) > CompanyMaxLen
                /\ Len(clean_company_name(Norm(raw))) <= ValidCompanyMaxLen)
               => /\ is_valid_company_name(Norm(raw))
                  /\ \A i \in 1..Len(results) :
                       results[i].company # clean_company_name(Norm(raw))

\* a processed page holds "Acme, Inc.", which gave its default row, and a
\* name of 85 letters, which passes is_valid_company_name and gave none
C17_Witness ==
  /\ RunsAttendee
  /\ \E n \in 1..Len(doc.pages) :
       /\ << "attendee", n >> \in scanned
       /\ { LongName, AcmeInc } \subseteq PlainLines(n)
       /\ is_valid_company_name(LongName)
       /\ \A i \in 1..Len(results) : results[i].company # LongName
       /\ \E i \in 1..Len(results) :
            /\ results[i].source_page = n
            /\ results[i].company = AcmeInc
            /\ results[i].team_size = 1
            /\ results[i].confidence = ConfLine

\* null or an integer >= 1
TeamSizeInRange(ts) == ts = NoneInt \/ ts >= 1

\* C18 (as stated): every row an extractor emits, every row
\* parse_conference_pdf returns and every profile merged from them has a
\* team size that is null or at least 1.
C18_TeamSizeRange ==
  /\ \A i \in 1..Len(results) : TeamSizeInRange(results[i].team_size)
  /\ \A i \in 1..Len(parsed) : TeamSizeInRange(parsed[i].team_size)
  /\ ppc = "done" =>
       \A i \in 1..Len(merge_all_companies(parsed)) :
         TeamSizeInRange(merge_all_companies(parsed)[i].team_size)

\* ------------------------------------------------------------------------
\* One block of a speaker-lineup page: the body of the card loop
\* ------------------------------------------------------------------------

\* first lines of the cards
CardNamePool == { Ln(<< "J", "a", "n", "e", " ", "D", "o", "e" >>, FontMedium),
                  Ln(<< "J", "a", "n", "e", " ", "D", "o", "e" >>, FontBold) }

\* "Acme" in a bold span followed by the tag in a light span
LineAcmeNew == << Span(<< "A", "c", "m", "e", " " >>, FontBold), Span(NewTag, FontLight) >>

\* the lines that follow the first line
CardLinePool ==
  { Ln(<< "V", "P", " ", "o", "f", " ", "S", "u", "p", "p", "o", "r", "t" >>, FontLight),
    Ln(<< "A", "c", "m", "e", " ", "R", "o", "b", "o", "t", "i", "c", "s" >>, FontBold),
    Ln(<< "L", "a", "b", "s" >>, FontXBold),
    Ln(<< "N", "E", "W" >>, FontLight),
    Ln(<< "n", "e", "w" >>, FontBold),
    Ln(<< "C", "E", "O" >>, FontBoldLight),
    LineAcmeNew }

\* most lines of a card
MaxCardLines == 4

Cards ==
  { << first >> \o rest :
      first \in CardNamePool,
      rest \in UNION { [1..n -> CardLinePool] : n \in 1..(MaxCardLines - 1) } }

InitCard ==
  /\ MergeIdle
  /\ BatchIdle
  /\ ParseIdle
  /\ ExtIdle
  /\ card \in Cards
  /\ card_rows = << >>
  /\ cpc = "card"

\* the block is not a speaker card: one of the "continue" statements
CardDiscard ==
  /\ cpc = "card"
  /\ CardRows(card, AgendaPdf, 1) = << >>
  /\ cpc' = "done"
  /\ UNCHANGED << card, card_rows >>
  /\ UNCHANGED << merge_vars, batch_vars, parse_vars, ext_vars >>

\* the block is a speaker card: "results.append(...)"
CardEmit ==
  /\ cpc = "card"
  /\ CardRows(card, AgendaPdf, 1) # << >>
  /\ card_rows' = CardRows(card, AgendaPdf, 1)
  /\ cpc' = "done"
  /\ UNCHANGED card
  /\ UNCHANGED << merge_vars, batch_vars, parse_vars, ext_vars >>

NextCard == CardDiscard \/ CardEmit

SpecCard == InitCard /\ [][NextCard]_vars

\* ------------------------------------------------------------------------
\* Properties of the speaker card
\* ------------------------------------------------------------------------

\* the fonts the claim calls bold-family
BoldFamily == { FontBold, FontXBold }

\* the longest run of bold-family lines that ends a list of line items
BoldTail(items) ==
  LET k == CHOOSE k \in 0..Len(items) :
             /\ \A i \in (Len(items) - k + 1)..Len(items) :
                  items[i].font \in BoldFamily
             /\ (k < Len(items) => items[Len(items) - k].font \notin BoldFamily)
  IN  SubSeq(items, Len(items) - k + 1, Len(items))

\* the texts of line items joined by single spaces
JoinedTexts(items) == Join(<< " " >>, [i \in 1..Len(items) |-> items[i].t])

\* the lines of the card after the name line
AfterName == SubSeq(LineItems(card), 2, Len(LineItems(card)))

\* C19 (as stated): the company of an accepted card is the maximal run of
\* bold-family lines that ends the card, in their order, and the last
\* line when the card has no bold-family line.
C19_MaximalBoldRun ==
  (cpc = "done" /\ card_rows # << >>) =>
    /\ BoldTail(AfterName) # << >> =>
         card_rows[1].company
           = clean_company_name(JoinedTexts(BoldTail(AfterName)))
    /\ (\A i \in 1..Len(AfterName) : AfterName[i].font \notin BoldFamily) =>
         card_rows[1].company
           = clean_company_name(AfterName[Len(AfterName)].t)

\* lines that are not the bare tag "NEW" in any letter case
NotBareNew(items) == SelectSeq(items, LAMBDA it : Lower(it.t) # << "n", "e", "w" >>)

\* C19 (amended): lines after the name line whose whole text is "NEW"
\* are passed over whatever their font; the company is the maximal run of
\* bold-family lines that ends the remaining lines, each without a
\* trailing NEW tag, joined by spaces and cleaned; when that run is empty
\* the company is the last line of the card.  The name line is never part
\* of the company, the name is the first line, the role is speaker.
C19_BoldRunPastNewLines ==
  (cpc = "done" /\ card_rows # << >>) =>
    /\ card_rows[1].company =
         IF BoldTail(NotBareNew(AfterName)) # << >>
           THEN clean_company_name(
                  JoinedTexts([i \in 1..Len(BoldTail(NotBareNew(AfterName))) |->
                     [t |-> StripNewTag(BoldTail(NotBareNew(AfterName))[i].t)]]))
           ELSE clean_company_name(
                  StripNewTag(AfterName[Len(AfterName)].t))
    /\ card_rows[1].contact_name = LineItems(card)[1].t
    /\ card_rows[1].role = RoleSpeaker
    /\ card = CardJane =>
         /\ card_rows[1].company = << "A", "c", "m", "e", " ", "R", "o", "b", "o", "t", "i", "c", "s" >>
         /\ card_rows[1].contact_title = << "V", "P", " ", "o", "f", " ", "S", "u", "p", "p", "o", "r", "t" >>

\* an accepted card whose bold lines surround a bare "new" line: the
\* company is "Acme Robotics Labs"
C19_Witness ==
  /\ cpc = "done"
  /\ card_rows # << >>
  /\ Len(card) = 4
  /\ LineText(card[3]) = << "n", "e", "w" >>
  /\ DominantFont(card[2]) \in BoldFamily
  /\ DominantFont(card[4]) \in BoldFamily
  /\ card_rows[1].company = << "A", "c", "m", "e", " ", "R", "o", "b", "o", "t", "i", "c", "s", " ", "L", "a", "b", "s" >>

\* ------------------------------------------------------------------------
\* Properties of the per-document output
\* ------------------------------------------------------------------------

\* C20 (as stated): the list parse_conference_pdf returns for a document
\* holds at most one row per company key, whatever the document type.
C20_OneRecordPerCompany ==
  ppc = "done" =>
    \A i, j \in 1..Len(parsed) :
      LowerStrip(parsed[i].company) = LowerStrip(parsed[j].company) => i = j

\* C20 (amended): for an attendee or a fallback document the returned
\* list holds at most one row per lowercased company, and none with an
\* empty company; for an agenda or speaker document it holds at most one
\* row per (company, contact_name, contact_title, role), so the speakers
\* of one company stay separate rows.
C20_OneRecordPerDedupKey ==
  ppc = "done" =>
    /\ SelectedExtractors # {"lineup", "schedule"} =>
         \A i, j \in 1..Len(parsed) :
           /\ LowerStrip(parsed[i].company) # << >>
           /\ LowerStrip(parsed[i].company) = LowerStrip(parsed[j].company)
                => i = j
    /\ SelectedExtractors = {"lineup", "schedule"} =>
         \A i, j \in 1..Len(parsed) :
           (/\ Lower(parsed[i].company) = Lower(parsed[j].company)
            /\ Lower(parsed[i].contact_name) = Lower(parsed[j].contact_name)
            /\ Lower(parsed[i].contact_title) = Lower(parsed[j].contact_title)
            /\ parsed[i].role = parsed[j].role) => i = j

\* an agenda document returned two speakers of one company, after a
\* schedule line that repeats a card was dropped
C20_Witness ==
  /\ ppc = "done"
  /\ SelectedExtractors = {"lineup", "schedule"}
  /\ Len(parsed) < Len(lineup_rows) + Len(results)
  /\ \E i, j \in 1..Len(parsed) :
       /\ LowerStrip(parsed[i].company) = LowerStrip(parsed[j].company)
       /\ parsed[i].contact_name = JaneDoe
       /\ parsed[j].contact_name = BobRoe

\* the larger of the numbers of a non-empty set
MaxOf(S) == CHOOSE x \in S : \A y \in S : y <= x

\* the rows of a list with the company key of r
CompanyGroup(rows, r) ==
  { i \in 1..Len(rows) : LowerStrip(rows[i].company) = LowerStrip(r.company) }

\* the rows of a list with the four-part key of r
RecordGroup(rows, r) ==
  { i \in 1..Len(rows) : RecordKey(rows[i]) = RecordKey(r) }

\* r has the highest confidence, the largest team size that is not null
\* and the union of the flags of the rows G of a list
ResolvesGroup(r, rows, G) ==
  /\ r.confidence = MaxOf({ rows[i].confidence : i \in G })
  /\ r.team_size = MaxOf({ rows[i].team_size : i \in G })
  /\ SeqToSet(r.flags) = UNION { SeqToSet(rows[i].flags) : i \in G }

\* the rows the agenda extractors emitted, in the order of the dispatcher
AgendaEmitted == lineup_rows \o results

\* C21 (as stated): a row of the returned list has the highest
\* confidence, the largest defined team size and the union of the flags
\* of the rows it stands for, in deduplicate_companies and in
\* _dedupe_records alike.
C21_SurvivorResolvesGroup ==
  ppc = "done" =>
    /\ SelectedExtractors # {"lineup", "schedule"} =>
         \A i \in 1..Len(parsed) :
           ResolvesGroup(parsed[i], results, CompanyGroup(results, parsed[i]))
    /\ SelectedExtractors = {"lineup", "schedule"} =>
         \A i \in 1..Len(parsed) :
           ResolvesGroup(parsed[i], AgendaEmitted,
                         RecordGroup(AgendaEmitted, parsed[i]))

\* C21 (amended): deduplicate_companies (attendee and fallback
\* documents) keeps the first row of a company with the highest
\* confidence, the largest team size and the sorted union of the flags of
\* its group; _dedupe_records (agenda and speaker documents) keeps the
\* first row of a key unchanged and drops the others, so a schedule-line
\* row dropped for a lineup row leaves no flag behind.
C21_FirstRowResolvedOrKept ==
  ppc = "done" =>
    /\ SelectedExtractors # {"lineup", "schedule"} =>
         \A i \in 1..Len(parsed) :
           LET G == CompanyGroup(results, parsed[i])
               first == results[CHOOSE g \in G : \A h \in G : g <= h]
           IN  /\ ResolvesGroup(parsed[i], results, G)
               /\ parsed[i].company = first.company
               /\ parsed[i].source_pdf = first.source_pdf
               /\ Cardinality(G) > 1 =>
                    parsed[i].flags = Sorted(SeqToSet(parsed[i].flags))
    /\ SelectedExtractors = {"lineup", "schedule"} =>
         \A i \in 1..Len(parsed) :
           LET G == RecordGroup(AgendaEmitted, parsed[i])
           IN  parsed[i] = AgendaEmitted[CHOOSE g \in G : \A h \in G : g <= h]

\* an attendee document where a later row of a company raised the
\* confidence and the team size of the first one
C21_Witness ==
  /\ ppc = "done"
  /\ SelectedExtractors = {"attendee"}
  /\ \E i \in 1..Len(parsed) :
       LET G == CompanyGroup(results, parsed[i])
           first == results[CHOOSE g \in G : \A h \in G : g <= h]
       IN  /\ Cardinality(G) > 1
           /\ first.confidence < parsed[i].confidence
           /\ first.team_size < parsed[i].team_size

\* an agenda document where a schedule-line row was dropped for the
\* lineup row of the same speaker, which stays without a flag
C21_WitnessDropped ==
  /\ ppc = "done"
  /\ SelectedExtractors = {"lineup", "schedule"}
  /\ \E i \in 1..Len(parsed) :
       /\ parsed[i].flags = << >>
       /\ \E g \in RecordGroup(AgendaEmitted, parsed[i]) :
            AgendaEmitted[g].flags = << FlagScheduleLine >>

\* ------------------------------------------------------------------------
\* Properties of the speaker rows
\* ------------------------------------------------------------------------

\* the blocks of a page whose first line with text is a person name
NamedBlocks(page) ==
  { b \in 1..Len(page) :
      LineItems(page[b]) # << >> /\ is_person_name(LineItems(page[b])[1].t) }

\* the text of a line before its first comma
BeforeFirstComma(line) ==
  SubSeq(line, 1, (CHOOSE i \in 1..Len(line) :
                     line[i] = "," /\ \A k \in 1..(i - 1) : line[k] # ",") - 1)

\* the lines of a page with a comma whose name segment is a person name
NamedLines(page) ==
  { l \in 1..Len(PageLines(page)) :
      /\ Contains(PageLines(page)[l], << "," >>)
      /\ is_person_name(BeforeFirstComma(PageLines(page)[l])) }

\* C22: every speaker row an agenda extractor holds or returns has a
\* contact name that passes is_person_name, and a page gives no more rows
\* than it has cards whose first line, or schedule lines whose name
\* segment, passes it: a card or line that fails gives no row at all.
C22_SpeakersAreNamed ==
  RunsAgenda =>
    /\ \A r \in SeqToSet(results) \cup SeqToSet(lineup_rows) \cup SeqToSet(parsed) :
         /\ r.role = RoleSpeaker
         /\ is_person_name(r.contact_name)
    /\ \A n \in 1..Len(doc.pages) :
         /\ ppc = "lineup" =>
              Cardinality(RowsOfPage(results, n))
                <= Cardinality(NamedBlocks(doc.pages[n]))
         /\ ppc = "schedule" =>
              Cardinality(RowsOfPage(results, n))
                <= Cardinality(NamedLines(doc.pages[n]))

\* a page with the card "Keynote Speaker" and the line "Day 1, Keynote,
\* Acme Robotics" was read by both extractors; its other cards and lines
\* gave rows, these two gave none
C22_Witness ==
  /\ RunsAgenda
  /\ ppc = "done"
  /\ \E n \in 1..Len(doc.pages), m \in 1..Len(doc.pages) :
       /\ << "lineup", n >> \in scanned
       /\ \E b \in 1..Len(doc.pages[n]) : doc.pages[n][b] = CardKeynote
       /\ RowsOfPage(lineup_rows, n) # {}
       /\ << "schedule", m >> \in scanned
       /\ \E b \in 1..Len(doc.pages[m]) : doc.pages[m][b] = ScheduleBlock
       /\ RowsOfPage(results, m) # {}
  /\ \A i \in 1..Len(parsed) :
       /\ ~Contains(parsed[i].contact_name, << "K", "e", "y", "n", "o", "t", "e" >>)
       /\ ~Contains(parsed[i].contact_name, << "D", "a", "y" >>)
       /\ parsed[i].contact_title # << "K", "e", "y", "n", "o", "t", "e" >>
       /\ parsed[i].contact_title # << "O", "p", "e", "n", "i", "n", "g" >>

\* the number of lines of the card that make up its company
CompanyLineCount ==
  IF BoldTail(NotBareNew(AfterName)) # << >>
    THEN Len(BoldTail(NotBareNew(AfterName)))
    ELSE 1

\* the title made of line items: their texts joined, null for none
TitleOf(items) == IF items = << >> THEN None ELSE JoinedTexts(items)

BeforeLast == SubSeq(AfterName, 1, Len(AfterName) - 1)

CommaPositions(line) == { i \in 1..Len(line) : line[i] = "," }

\* the text of a line after its last comma
AfterLastComma(line) ==
  SubSeq(line, MaxOf(CommaPositions(line)) + 1, Len(line))

\* the text of a line between its first and its last comma
BetweenCommas(line) ==
  SubSeq(line, Len(BeforeFirstComma(line)) + 2, MaxOf(CommaPositions(line)) - 1)

\* the row of a schedule line on page n
SplitRow(line, n) ==
  [ company |-> clean_company_name(AfterLastComma(line)),
    source_pdf |-> doc.filename, role |-> RoleSpeaker,
    contact_name |-> Norm(BeforeFirstComma(line)),
    contact_title |-> IF Norm(BetweenCommas(line)) = << >> THEN None
                      ELSE Norm(BetweenCommas(line)),
    team_size |-> NoneInt, confidence |-> 75, flags |-> << FlagScheduleLine >>,
    source_page |-> n ]

\* the lines of a page the schedule-line extractor splits
SplitLines(page) ==
  { line \in SeqToSet(PageLines(page)) :
      /\ ~is_header_footer(line)
      /\ Cardinality(CommaPositions(line)) >= 2 }

\* C24: while the schedule-line extractor runs, its rows are the rows of
\* the lines with two or more commas of the pages it has read, split at
\* the first and the last comma, whose name is a person name and whose
\* cleaned company has 2 to 80 characters; each has role speaker, no team
\* size, confidence 0.75 and the flag "schedule_line_parse".
C24_SplitAtFirstAndLastComma ==
  (RunsAgenda /\ ppc \in {"schedule", "done"}) =>
    /\ \A n \in 1..Len(doc.pages) :
         << "schedule", n >> \in scanned =>
           \A line \in SplitLines(doc.pages[n]) :
             (\E i \in 1..Len(results) : results[i] = SplitRow(line, n))
               <=> /\ is_person_name(BeforeFirstComma(line))
                   /\ Len(clean_company_name(AfterLastComma(line))) >= 2
                   /\ Len(clean_company_name(AfterLastComma(line))) <= 80
    /\ \A i \in 1..Len(results) :
         /\ << "schedule", results[i].source_page >> \in scanned
         /\ \E line \in SplitLines(doc.pages[results[i].source_page]) :
              results[i] = SplitRow(line, results[i].source_page)

\* the line "Bob Roe, VP, Sales, Acme Robotics NEW" gave the title
\* "VP, Sales" and the company "Acme Robotics"; "Al Poe, CTO, A" and
\* "Day 1, Keynote, Acme Robotics" of the same page gave no row
C24_Witness ==
  /\ RunsAgenda
  /\ ppc = "done"
  /\ \E i \in 1..Len(results) :
       /\ results[i].contact_name = BobRoe
       /\ results[i].contact_title = << "V", "P", ",", " ", "S", "a", "l", "e", "s" >>
       /\ results[i].company = << "A", "c", "m", "e", " ", "R", "o", "b", "o", "t", "i", "c", "s" >>
       /\ results[i].confidence = ConfScheduleLine
       /\ results[i].team_size = NoneInt
       /\ results[i].flags = << FlagScheduleLine >>
       /\ { << "A", "l", " ", "P", "o", "e", ",", " ", "C", "T", "O", ",", " ", "A" >>,
            << "D", "a", "y", " ", "1", ",", " ", "K", "e", "y", "n", "o", "t", "e", ",", " ", "A", "c", "m", "e", " ", "R", "o", "b", "o", "t", "i", "c", "s" >> }
            \subseteq SplitLines(doc.pages[results[i].source_page])
  /\ \A i \in 1..Len(results) :
       /\ results[i].company # << "A" >>
       /\ results[i].contact_title # << "K", "e", "y", "n", "o", "t", "e" >>

\* ------------------------------------------------------------------------
\* The filters applied to one text
\* ------------------------------------------------------------------------

\* the words the texts are built from
WordPool ==
  { << "A" >>,
    << "B", "a", "r", "t", "h", "o", "l", "o", "m", "e", "w", "-", "F", "i", "t", "z" >>,
    << "D", "a", "y" >>,
    << "J", "4", "n", "e" >>,
    << "D", "o", "e", "," >>,
    << "j", "a", "n", "e" >> }

\* the words every position but the last is drawn from
LeadWords == { << "A" >>, << "B", "a", "r", "t", "h", "o", "l", "o", "m", "e", "w", "-", "F", "i", "t", "z" >> }

\* the longest text, in words
MaxWords == 5

\* texts of 1 to MaxWords words separated by one space
WordTexts ==
  UNION { { Join(<< " " >>, lead \o << w >>) :
              lead \in [1..k -> LeadWords], w \in WordPool } :
          k \in 0..(MaxWords - 1) }

\* further texts: irregular whitespace, punctuation inside words, NEW tags
OtherTexts ==
  { << " ", "J", "a", "n", "e", " ", " ", "D", "o", "e", " " >>,
    << "M", "a", "r", "y", " ", "O", "'", "N", "e", "i", "l", "-", "S", "m", "i", "t", "h", " ", "J", "r", "." >>,
    << "A", "c", "m", "e" >>,
    << "A", "c", "m", "e", " ", "N", "E", "W" >>,
    << "A", "c", "m", "e", " ", "N", "E", "W", " ", "N", "E", "W" >>,
    << "a", "c", "m", "e", " ", "n", "e", "w", " ", "N", "e", "w" >>,
    << " ", "A", "c", "m", "e", " ", " ", "&", " ", " ", "C", "o", " ", "," >>,
    << "A", "c", "m", "e", " ", "N", "E", "W", "," >>,
    << "N", "E", "W" >>,
    << "A", "&", "B" >>,
    << "A", "c", "m", "e", ",", " ", "I", "n", "c", "." >>,
    << "J", "a", "n", "e", "NBSP", "D", "o", "e" >>, << >> }

Texts == WordTexts \cup OtherTexts

InitFilter ==
  /\ MergeIdle
  /\ BatchIdle
  /\ ParseIdle
  /\ CardIdle
  /\ ValidateIdle
  /\ LoggerIdle
  /\ arg \in Texts
  /\ is_name = "call"
  /\ cleaned = << >>

\* is_person_name(arg) returns
IsPersonName ==
  /\ is_name = "call"
  /\ is_name' = IF is_person_name(arg) THEN "true" ELSE "false"
  /\ UNCHANGED << arg, cleaned >>
  /\ UNCHANGED << merge_vars, batch_vars, parse_vars, card_vars >>
  /\ UNCHANGED << validate_vars, logger_vars >>

\* an extractor cleans the text: company = clean_company_name(arg)
CleanCompanyName ==
  /\ is_name # "idle"
  /\ cleaned = << >>
  /\ cleaned' = << clean_company_name(arg) >>
  /\ UNCHANGED << arg, is_name >>
  /\ UNCHANGED << merge_vars, batch_vars, parse_vars, card_vars >>
  /\ UNCHANGED << validate_vars, logger_vars >>

\* merge_all_companies cleans the company of the row again
CleanAgain ==
  /\ Len(cleaned) = 1
  /\ cleaned' = Append(cleaned, clean_company_name(cleaned[1]))
  /\ UNCHANGED << arg, is_name >>
  /\ UNCHANGED << merge_vars, batch_vars, parse_vars, card_vars >>
  /\ UNCHANGED << validate_vars, logger_vars >>

NextFilter ==
  \/ IsPersonName
  \/ CleanCompanyName
  \/ CleanAgain

SpecFilter == InitFilter /\ [][NextFilter]_vars

\* the predicate as stated: 2 to 4 whitespace-separated tokens, none with
\* a digit or a comma, each of Capitalized shape, none a denylisted word
StatedPersonName(t) ==
  /\ Len(Split(t)) \in 2..4
  /\ \A i \in 1..Len(Split(t)) :
       /\ \A k \in 1..Len(Split(t)[i]) :
            ~IsDigit(Split(t)[i][k]) /\ Split(t)[i][k] # ","
       /\ CapitalizedWord(Split(t)[i])
       /\ Lower(Split(t)[i]) \notin BadNameWords

\* the length of the text once its whitespace is normalised
NormLen(t) == Len(Norm(t))

\* C25 (as stated): is_person_name returns true exactly for the texts of
\* the stated predicate, whatever their length.
C25_ExactlyStatedPredicate ==
  is_name \in {"true", "false"} =>
    (is_name = "true" <=> StatedPersonName(arg))

\* C25 (amended): is_person_name returns true exactly for the texts of the
\* stated predicate whose normalised length is 4 to 60 characters.
C25_StatedPredicateWithinLength ==
  is_name \in {"true", "false"} =>
    (is_name = "true" <=>
       StatedPersonName(arg) /\ NormLen(arg) >= 4 /\ NormLen(arg) <= 60)

\* a text of four Capitalized words and more than 60 characters was rejected
C25_Witness ==
  /\ is_name = "false"
  /\ StatedPersonName(arg)
  /\ Len(Split(arg)) = 4
  /\ NormLen(arg) > 60

\* a text of the stated predicate was accepted
C25_WitnessAccepted ==
  /\ is_name = "true"
  /\ Len(Split(arg)) = 3
  /\ NormLen(arg) > 30

\* C28: cleaning a cleaned company name changes nothing:
\* clean_company_name(clean_company_name(x)) = clean_company_name(x).
C28_CleanIsIdempotent ==
  Len(cleaned) = 2 => cleaned[2] = cleaned[1]

\* C27: no record of a speaker card has the bare marker "NEW" (in any
\* letter case) as its company, and its title is built from the lines
\* after the name with the bare "NEW" lines left out.
C27_NewNeverData ==
  (cpc = "done" /\ card_rows # << >>) =>
    /\ Upper(card_rows[1].company) # NewTag
    /\ \E k \in 0..Len(AfterName) :
         card_rows[1].contact_title
           = TitleOf(NotBareNew(SubSeq(AfterName, 1, k)))

\* ------------------------------------------------------------------------
\* validate_companies and the LiveLogger it shares with the interface
\* ------------------------------------------------------------------------

\* the threads that call the logger
Threads == {"pipeline", "ui"}

\* --min-confidence default
DefaultMinConfidence == 70

\* the confidences of the companies of raw_companies.json
ConfidencePool == {50, ConfScheduleLine, ConfTeamOf}

\* the longest raw_companies.json
MaxCompanies == 2

\* the company lists: company i of a list is named i
CompanyLists ==
  UNION { { [i \in 1..n |-> [company |-> i, confidence |-> f[i]]] :
              f \in [1..n -> ConfidencePool] } :
          n \in 0..MaxCompanies }

\* the company lists whose companies all pass every threshold
TrustedLists ==
  { l \in CompanyLists : \A i \in 1..Len(l) : l[i].confidence = ConfTeamOf }

\* companies = [c for c in all_companies if c.get('confidence', 0) >= m]
FilterByConfidence(all, m) ==
  SelectSeq(all, LAMBDA c : c.confidence >= m)

\* "if max_companies and len(companies) > max_companies:
\*      companies = companies[:max_companies]"
ApplyLimit_NoLimit(cs, n) == cs

ApplyLimit(cs, n) ==
  IF TruthyInt(n) /\ Len(cs) > n THEN SubSeq(cs, 1, n) ELSE cs

\* what research_company and validate_icp return
ResearchCancelled == "Cancelled"
ResearchFailed == "Unable to research"
ResearchFound == "found"
IcpCancelled == "Cancelled by user"
IcpFailed == "Unable to validate due to error"
IcpScored == "scored"

\* the live_logger.log calls of the pipeline thread: the action logged
\* and the statement that follows
LogCalls ==
  [ start              |-> << "START_VALIDATION", "load" >>,
    log_missing        |-> << "INPUT_FILE_MISSING", "error" >>,
    log_stop           |-> << "VALIDATION_CANCELLED", "finish" >>,
    log_company        |-> << "VALIDATING_COMPANY", "log_research" >>,
    log_research       |-> << "RESEARCH_COMPANY", "research_pre" >>,
    log_research_ok    |-> << "RESEARCH_SUCCESS", "after_research" >>,
    log_research_error |-> << "RESEARCH_ERROR", "after_research" >>,
    log_icp            |-> << "VALIDATE_ICP", "icp_pre" >>,
    log_icp_ok         |-> << "ICP_SCORE_COMPLETE", "after_icp" >>,
    log_icp_error      |-> << "VALIDATION_ERROR", "after_icp" >>,
    log_scored         |-> << "COMPANY_SCORED", "append" >> ]

\* the live_logger.is_cancelled calls of the pipeline thread: the
\* statement that follows when it returns True, and when it returns False
CancelChecks ==
  [ top_check         |-> << "log_stop", "log_company" >>,
    research_pre      |-> << "after_research", "research_api" >>,
    research_post     |-> << "after_research", "log_research_ok" >>,
    research_post_bad |-> << "after_research", "log_research_error" >>,
    after_research    |-> << "log_stop", "log_icp" >>,
    icp_pre           |-> << "after_icp", "icp_api" >>,
    icp_post          |-> << "after_icp", "log_icp_ok" >>,
    icp_post_bad      |-> << "after_icp", "log_icp_error" >>,
    after_icp         |-> << "log_stop", "log_scored" >> ]

\* thread t is at a call of log
AtLog(t) ==
  IF t = "ui" THEN upc = "cancel_log" ELSE vpc \in DOMAIN LogCalls

\* LiveLogger.log: "with self.lock: ... self.logs.append(entry)".  Called
\* from cancel() it would return to the end of the outer "with", whose
\* release of the lock, already released, raises.
LoggerLog ==
  \E t \in Threads :
    /\ AtLog(t)
    /\ lock = "free"
    /\ IF t = "ui"
         THEN /\ logs' = Append(logs, "CANCELLED")
              /\ upc' = "raised"
              /\ UNCHANGED validate_vars
         ELSE /\ logs' = Append(logs, LogCalls[vpc][1])
              /\ vpc' = LogCalls[vpc][2]
              /\ research_data' =
                   IF vpc = "log_research_ok" THEN ResearchFound
                   ELSE IF vpc = "log_research_error" THEN ResearchFailed
                   ELSE research_data
              /\ validation_data' =
                   IF vpc = "log_icp_ok" THEN IcpScored
                   ELSE IF vpc = "log_icp_error" THEN IcpFailed
                   ELSE validation_data
              /\ UNCHANGED << raw_companies, min_confidence, max_companies,
                              to_validate, idx, validated_companies, upc >>
    /\ UNCHANGED << lock, cancelled >>
    /\ UNCHANGED << merge_vars, batch_vars, parse_vars, card_vars, filter_vars >>

\* LiveLogger.is_cancelled: "with self.lock: return self.cancelled", and
\* the branch the caller takes on the value
LoggerIsCancelled ==
  /\ vpc \in DOMAIN CancelChecks
  /\ lock = "free"
  /\ vpc' = CancelChecks[vpc][IF cancelled THEN 1 ELSE 2]
  /\ research_data' =
       IF cancelled /\ vpc \in {"research_pre", "research_post",
                                "research_post_bad"}
         THEN ResearchCancelled ELSE research_data
  /\ validation_data' =
       IF cancelled /\ vpc \in {"icp_pre", "icp_post", "icp_post_bad"}
         THEN IcpCancelled ELSE validation_data
  /\ UNCHANGED << raw_companies, min_confidence, max_companies, to_validate,
                  idx, validated_companies >>
  /\ UNCHANGED logger_vars
  /\ UNCHANGED << merge_vars, batch_vars, parse_vars, card_vars, filter_vars >>

\* LiveLogger.cancel, up to its call of self.log: "with self.lock:
\* self.cancelled = True"; the lock stays held
LoggerCancel_Reentrant ==
  /\ upc = "idle"
  /\ lock = "free"
  /\ cancelled' = TRUE
  /\ logs' = Append(logs, "CANCELLED")
  /\ UNCHANGED << lock, upc >>
  /\ UNCHANGED validate_vars
  /\ UNCHANGED << merge_vars, batch_vars, parse_vars, card_vars, filter_vars >>

LoggerCancel ==
  /\ upc = "idle"
  /\ lock = "free"
  /\ lock' = "ui"
  /\ cancelled' = TRUE
  /\ upc' = "cancel_log"
  /\ UNCHANGED logs
  /\ UNCHANGED validate_vars
  /\ UNCHANGED << merge_vars, batch_vars, parse_vars, card_vars, filter_vars >>

\* LiveLogger.clear: "with self.lock: self.logs.clear();
\* self.cancelled = False"
LoggerClear ==
  /\ upc = "idle"
  /\ lock = "free"
  /\ logs' = << >>
  /\ cancelled' = FALSE
  /\ UNCHANGED << lock, upc >>
  /\ UNCHANGED validate_vars
  /\ UNCHANGED << merge_vars, batch_vars, parse_vars, card_vars, filter_vars >>

\* a step of validate_companies that leaves the logger alone and moves
\* the pipeline thread from one statement to another
PipelineStep(from, to) ==
  /\ vpc = from
  /\ vpc' = to
  /\ UNCHANGED << raw_companies, min_confidence, max_companies >>
  /\ UNCHANGED logger_vars
  /\ UNCHANGED << merge_vars, batch_vars, parse_vars, card_vars, filter_vars >>

\* "if not os.path.exists(input_file):" holds
InputFileMissing ==
  /\ PipelineStep("load", "log_missing")
  /\ UNCHANGED << to_validate, idx, research_data, validation_data,
                  validated_companies >>

\* the file is read, filtered by confidence and cut to the limit
LoadCompanies ==
  /\ PipelineStep("load", "client")
  /\ to_validate' =
       ApplyLimit(FilterByConfidence(raw_companies, min_confidence),
                  max_companies)
  /\ UNCHANGED << idx, research_data, validation_data, validated_companies >>

\* "if not api_key: return {'error': ...}"
ApiKeyMissing ==
  /\ PipelineStep("client", "error")
  /\ UNCHANGED << to_validate, idx, research_data, validation_data,
                  validated_companies >>

\* client = Anthropic(api_key=api_key); validated_companies = []
ClientReady ==
  /\ PipelineStep("client", "loop")
  /\ validated_companies' = << >>
  /\ UNCHANGED << to_validate, idx, research_data, validation_data >>

\* "for idx, company in enumerate(companies, 1)": the next company
LoopNext ==
  /\ idx < Len(to_validate)
  /\ PipelineStep("loop", "top_check")
  /\ idx' = idx + 1
  /\ UNCHANGED << to_validate, research_data, validation_data,
                  validated_companies >>

\* the loop is exhausted
LoopEnd ==
  /\ idx = Len(to_validate)
  /\ PipelineStep("loop", "finish")
  /\ UNCHANGED << to_validate, idx, research_data, validation_data,
                  validated_companies >>

\* research_company: the request returns a response that parses, one
\* that does not, or raises
ResearchApi ==
  /\ \E to \in {"research_post", "research_post_bad", "log_research_error"} :
       PipelineStep("research_api", to)
  /\ UNCHANGED << to_validate, idx, research_data, validation_data,
                  validated_companies >>

\* validate_icp: the same for its request
IcpApi ==
  /\ \E to \in {"icp_post", "icp_post_bad", "log_icp_error"} :
       PipelineStep("icp_api", to)
  /\ UNCHANGED << to_validate, idx, research_data, validation_data,
                  validated_companies >>

\* validated = {**company, **research_data, **validation_data, ...};
\* validated_companies.append(validated)
AppendValidated ==
  /\ PipelineStep("append", "loop")
  /\ validated_companies' =
       Append(validated_companies,
              [company |-> to_validate[idx].company,
               description |-> research_data,
               reasoning |-> validation_data])
  /\ UNCHANGED << to_validate, idx, research_data, validation_data >>

\* after the loop: the DataFrame of the validated list is sorted by
\* icp_score and saved; an empty list has no such column
FinishValidation ==
  /\ PipelineStep("finish",
                  IF validated_companies = << >> THEN "raised" ELSE "done")
  /\ UNCHANGED << to_validate, idx, research_data, validation_data,
                  validated_companies >>

\* validate_companies is called with a file, a threshold and a limit
InitValidate ==
  /\ MergeIdle
  /\ BatchIdle
  /\ ParseIdle
  /\ CardIdle
  /\ FilterIdle
  /\ LoggerIdle
  /\ raw_companies \in CompanyLists
  /\ min_confidence \in {DefaultMinConfidence, ConfLine}
  /\ max_companies \in {NoneInt} \cup 0..MaxCompanies
  /\ to_validate = << >>
  /\ idx = 0
  /\ research_data = "none"
  /\ validation_data = "none"
  /\ validated_companies = << >>
  /\ vpc = "start"

NextValidate ==
  \/ LoggerLog
  \/ LoggerIsCancelled
  \/ InputFileMissing
  \/ LoadCompanies
  \/ ApiKeyMissing
  \/ ClientReady
  \/ LoopNext
  \/ LoopEnd
  \/ ResearchApi
  \/ IcpApi
  \/ AppendValidated
  \/ FinishValidation

SpecValidate == InitValidate /\ [][NextValidate]_vars

\* the pipeline thread runs validate_companies with the defaults while
\* the interface may call cancel() and clear()
InitCancel ==
  /\ MergeIdle
  /\ BatchIdle
  /\ ParseIdle
  /\ CardIdle
  /\ FilterIdle
  /\ LoggerIdle
  /\ raw_companies \in TrustedLists
  /\ min_confidence = DefaultMinConfidence
  /\ max_companies = NoneInt
  /\ to_validate = << >>
  /\ idx = 0
  /\ research_data = "none"
  /\ validation_data = "none"
  /\ validated_companies = << >>
  /\ vpc = "start"

NextCancel ==
  \/ NextValidate
  \/ LoggerCancel
  \/ LoggerClear

SpecCancel == InitCancel /\ [][NextCancel]_vars

\* every thread that can take a step eventually takes one; the clicks of
\* the user are not forced
SpecCancelFair ==
  /\ SpecCancel
  /\ WF_vars(NextValidate)

\* validate_companies has read its input file
Loaded ==
  /\ vpc \notin {"idle", "start", "load", "log_missing"}
  /\ \A i \in 1..Len(logs) : logs[i] # "INPUT_FILE_MISSING"

\* the companies of the file whose confidence reaches the threshold, in
\* the order of the file
Passing == SelectSeq(raw_companies, LAMBDA c : c.confidence >= min_confidence)

\* the first n elements of a list, all of them when it has fewer
FirstN(s, n) == SubSeq(s, 1, IF n < Len(s) THEN n ELSE Len(s))

\* the confidence constants of the extractors
ExtractorConfidences == {ConfScheduleLine, ConfFallback, ConfLine, ConfTeamOf}

\* C26: validate_companies processes, in the order of the file, the
\* companies whose confidence is at least min_confidence, all of them when
\* max_companies is not given and the first N of them when it is N, for
\* every N >= 0; the companies it has validated are the first ones of that
\* list; every extractor confidence passes the default threshold 0.7.
C26_FirstNAboveThreshold ==
  /\ Loaded =>
       /\ to_validate = IF max_companies = NoneInt THEN Passing
                        ELSE FirstN(Passing, max_companies)
       /\ idx <= Len(to_validate)
       /\ Len(validated_companies) <= idx
       /\ \A i \in 1..Len(validated_companies) :
            validated_companies[i].company = to_validate[i].company
  /\ \A c \in ExtractorConfidences : c >= DefaultMinConfidence

\* C29: a call of cancel() that has started returns, leaving the lock
\* free for the other threads, and the cancelled flag it set stays set
\* until clear() resets it.
C29_CancelCompletes ==
  /\ (upc = "cancel_log") ~> (upc # "cancel_log" /\ lock = "free")
  /\ [][(cancelled /\ ~cancelled') => (upc = "idle" /\ logs' = << >>)]_vars

\* the statements that follow the loop of validate_companies
AfterLoop == {"log_stop", "finish", "done", "raised"}

====
